---- MODULE Spec2Model ----
(***************************************************************************)
(* Funding dashboard: the paper-trading engine (processPortfolio) and the  *)
(* AI trader cycle (runAiTraderCycle) over the rate cache and the store.   *)
(*                                                                         *)
(* Units.  Money is an integer number of thousandths of a dollar, every    *)
(* fraction (rates, spreads, fees, thresholds, percentages) an integer     *)
(* number of ten-thousandths, prices whole dollars, time milliseconds.     *)
(* The code computes in IEEE doubles; here a product of money and a        *)
(* fraction is rounded toward zero to a thousandth of a dollar.             *)
(***************************************************************************)
EXTENDS Integers, Sequences, FiniteSets, TLC

VARIABLES
    clock,              \* Date.now(), ms
    cached,             \* cache.ts `cached`: the spreads of the latest aggregate
    paper_portfolios,   \* store table, id -> row
    paper_positions,    \* store table, sequence of rows; the index is the id
    paper_transactions, \* store table, append-only sequence of rows
    cachedAt,           \* cache.ts `cachedAt`
    pp,                 \* history: what the latest processPortfolio call did
    cycle,              \* history: what the latest runPaperTradingCycle call did
    storeErrors,        \* how many store calls have failed so far
    ai_traders,         \* store table, name -> row
    ai_positions,       \* store table, sequence of rows; the index is the id
    ai_decisions,       \* store table, append-only sequence of rows
    ai,                 \* history: what the latest runAiTraderCycle call did
    tasks,              \* event loop: the handlers suspended at an await
    pending,            \* event loop: the polls, HTTP reads and AI runs still to begin
    nextPollAt,         \* event loop: when the poll timer fires next
    cacheWrites,        \* history: every write of the cache, in order
    getReturns,         \* history: every return of getCachedRates, in order
    settled,            \* aggregateRates: how each venue adapter's promise settled
    aggregated,         \* aggregateRates: what the call returned
    llm,                \* history: what callLLM did in the latest runAiTraderCycle call
    http,               \* history: the latest HTTP response
    analytics           \* history: the latest computeSharpeAndDrawdown call

vars == << clock, cached, cachedAt, paper_portfolios, paper_positions, paper_transactions,
           pp, cycle, storeErrors, ai_traders, ai_positions, ai_decisions, ai,
           tasks, pending, nextPollAt, cacheWrites, getReturns, settled, aggregated,
           llm, http, analytics >>

paperVars == << paper_portfolios, paper_positions, paper_transactions, pp, cycle >>
aiVars == << ai_traders, ai_positions, ai_decisions, ai >>
loopVars == << tasks, pending, nextPollAt, cacheWrites, getReturns >>
fanOutVars == << settled, aggregated >>

-----------------------------------------------------------------------------
(* Bounds of the model *)

MaxTicks == 1           \* the clock advances this many times
MaxPositionRows == 2    \* no paper cycle starts once this many paper positions exist
MaxAiDecisions == 2     \* no AI cycle starts once this many decisions are logged
MaxCapCycles == 4       \* position cap: no AI cycle starts once this many decisions are logged
MaxLoopSteps == 2       \* event loop: the clock advances this many quarter minutes
MaxPolls == 2           \* event loop: polls the timer starts
FewPolls == 1           \* event loop: polls, in a behaviour with MaxGets HTTP reads
FewGets == 1            \* event loop: HTTP reads, in a behaviour with MaxPolls polls
MaxGets == 2            \* event loop: HTTP handlers that read the cache
MaxAiRuns == 2          \* event loop: POST /api/ai/run requests
MaxStoreErrors == 1     \* store calls that fail in a behaviour

-----------------------------------------------------------------------------
(* Program constants *)

TRADING_FEE == 5                \* 0.0005
FUNDING_PERIOD_MS == 3600000    \* 60 * 60 * 1000
STOP_LOSS_PCT == 1500           \* 0.15, AI traders
INITIAL_BALANCE == 10000        \* dollars, AI traders
CACHE_TTL_MS == 30000
MIN_POSITION_USD == 100         \* `positionSize < 100` / `size < 100`
FUNDING_DUST == 1               \* `Math.abs(fundingEarned) < 0.001`, thousandths of a dollar
DEFAULT_STOP_LOSS_PCT == 1000           \* config.stop_loss_pct ?? 0.10
DEFAULT_EXIT_SPREAD_THRESHOLD == 100    \* config.exit_spread_threshold ?? 0.01
DEFAULT_MAX_POSITION_SIZE_PCT == 2000   \* config.max_position_size_pct ?? 0.20
DEFAULT_MAX_POSITIONS == 5              \* config.max_positions ?? 5
DEFAULT_TOP_N_BY_OI == 20               \* config.top_n_by_oi ?? 20
AI_MAX_POSITIONS == 3                   \* `remainingPositions.length >= 3`
AI_MAX_SIZE_PCT == 3000                 \* `totalValue * 0.3`

\* thresholds that the code writes with a sign or that differ per strategy
DefaultExitRateThreshold(strategy) == IF strategy = "negative_fade" THEN -100 ELSE 1
DefaultEnterRateThreshold == -500
DefaultEnterSpreadThreshold(strategy) ==
    CASE strategy = "conservative" -> 500
      [] strategy = "diversified" -> 400
      [] OTHER -> 300
DefaultPositiveRateThreshold == 3
DefaultNegativeRateThreshold == -3

FracDen == 10 ^ 4       \* fractions are ten-thousandths
UsdDen == 10 ^ 3        \* money is thousandths of a dollar
Usd(d) == d * UsdDen

NoPrice == 0            \* markPrice / entry_price null (falsy in the code's guards)
NoId == 0               \* position_id null
NoTime == 0 - 1         \* closed_at null

-----------------------------------------------------------------------------
(* Arithmetic *)

Abs(x) == IF x < 0 THEN 0 - x ELSE x

\* floor(a * b / c) for a, b >= 0 and c > 0, split so that no product leaves 32 bits
MulDiv(a, b, c) == (a \div c) * b + ((a % c) * b) \div c

\* x * num / den for den > 0, rounded toward zero
Scale(x, num, den) ==
    IF (x < 0) = (num < 0) THEN MulDiv(Abs(x), Abs(num), den)
    ELSE 0 - MulDiv(Abs(x), Abs(num), den)

\* money times a fraction
Frac(x, f) == Scale(x, f, FracDen)
Min(a, b) == IF a < b THEN a ELSE b
Max(a, b) == IF a > b THEN a ELSE b

RECURSIVE SumSeq(_)
SumSeq(s) == IF s = << >> THEN 0 ELSE Head(s) + SumSeq(Tail(s))

Range(s) == {s[i] : i \in 1..Len(s)}

RECURSIVE InsertKey(_, _, _)
\* the index x placed into the index list t (ascending by key, stable): x goes
\* behind every index whose key is not strictly greater
InsertKey(x, t, key) ==
    IF t = << >> THEN << x >>
    ELSE IF key[x] < key[Head(t)] THEN << x >> \o t
    ELSE << Head(t) >> \o InsertKey(x, Tail(t), key)

RECURSIVE SortIdx(_, _)
\* the indices 1..n of the key sequence in ascending key order, ties in index order
SortIdx(key, n) ==
    IF n = 0 THEN << >> ELSE InsertKey(n, SortIdx(key, n - 1), key)

\* Array.prototype.sort((a, b) => key(a) - key(b)), which is stable
SortAsc(s, key) == LET p == SortIdx(key, Len(s)) IN [i \in 1..Len(s) |-> s[p[i]]]

-----------------------------------------------------------------------------
(* The aggregate: FundingSpread records, flattened *)

Assets == << "BTC", "ETH" >>    \* the primary venue's universe, in its order

Quote(rate, mark, spread, oi) ==
    [rate8h |-> rate, markPrice |-> mark, maxSpread |-> spread, openInterest |-> oi]

\* what one asset can look like in an aggregate; "absent": not on the primary venue
BtcQuotes ==
    { Quote(400, 100, 450, 2),          \* positive rate, wide spread
      Quote(0, 120, 50, 2),             \* rate zero, price up 20%, spread gone
      Quote(0 - 600, 100, 0 - 600, 2),  \* deeply negative rate
      Quote(0 - 600, 80, 0 - 600, 2),   \* deeply negative rate, price down 20%
      Quote(400, NoPrice, 450, 2) }     \* no mark price published
EthQuotes ==
    { Quote(400, 100, 400, 1) }
QuotesOf(a) == IF a = "BTC" THEN BtcQuotes ELSE EthQuotes

Spread(a, q) == [asset |-> a] @@ q

\* aggregateRates: one spread per primary-venue rate, sorted by |maxSpread| descending
SortSpreads(list) == SortAsc(list, [i \in 1..Len(list) |-> 0 - Abs(list[i].maxSpread)])

\* the aggregates a poll can produce: empty when the primary venue fails, else
\* ETH with its quote and BTC absent or with one of its quotes
ListingsOf(a) == { << Spread(a, q) >> : q \in QuotesOf(a) }
Aggregates ==
    { << >> } \cup
    { SortSpreads(b \o e) : b \in ListingsOf("BTC") \cup { << >> }, e \in ListingsOf("ETH") }

\* spreadsMap.get(asset)
HasSpread(spreads, a) == \E i \in 1..Len(spreads) : spreads[i].asset = a
SpreadOf(spreads, a) == spreads[CHOOSE i \in 1..Len(spreads) : spreads[i].asset = a]

\* config.key ?? dflt
Cfg(config, key, dflt) == IF key \in DOMAIN config THEN config[key] ELSE dflt

-----------------------------------------------------------------------------
(* Paper trading: processPortfolio, one position at a time *)

\* FundingOf with the direction left out: a long is credited like a short
FundingOf_NoDirection(pos, spreads, now) ==
    LET has == HasSpread(spreads, pos.asset)
        lastCollected == pos.last_funding_collected
        periodsElapsed == (now - lastCollected) \div FUNDING_PERIOD_MS
        currentRate8h == IF has THEN SpreadOf(spreads, pos.asset).rate8h ELSE 0
        fundingEarned == Scale(pos.size_usd, currentRate8h * periodsElapsed, 8 * FracDen)
        collected == has /\ periodsElapsed > 0 /\ ~(Abs(fundingEarned) < FUNDING_DUST)
    IN  [ collected |-> collected,
          fundingEarned |-> IF collected THEN fundingEarned ELSE 0,
          periodsElapsed |-> periodsElapsed,
          newFundingCollected |->
              IF collected THEN pos.total_funding_collected + fundingEarned
              ELSE pos.total_funding_collected,
          newLastCollected |->
              IF collected THEN lastCollected + periodsElapsed * FUNDING_PERIOD_MS
              ELSE lastCollected ]

\* FundingOf with the last collection moved to `now` instead of by whole periods
FundingOf_ToNow(pos, spreads, now) ==
    LET has == HasSpread(spreads, pos.asset)
        lastCollected == pos.last_funding_collected
        periodsElapsed == (now - lastCollected) \div FUNDING_PERIOD_MS
        currentRate8h == IF has THEN SpreadOf(spreads, pos.asset).rate8h ELSE 0
        direction == IF pos.side = "short_perp" THEN 1 ELSE 0 - 1
        fundingEarned ==
            Scale(pos.size_usd, currentRate8h * periodsElapsed * direction, 8 * FracDen)
        collected == has /\ periodsElapsed > 0 /\ ~(Abs(fundingEarned) < FUNDING_DUST)
    IN  [ collected |-> collected,
          fundingEarned |-> IF collected THEN fundingEarned ELSE 0,
          periodsElapsed |-> periodsElapsed,
          newFundingCollected |->
              IF collected THEN pos.total_funding_collected + fundingEarned
              ELSE pos.total_funding_collected,
          newLastCollected |-> IF collected THEN now ELSE lastCollected ]

\* Step 1 for one open position: what the funding loop does with it
FundingOf(pos, spreads, now) ==
    LET has == HasSpread(spreads, pos.asset)
        lastCollected == pos.last_funding_collected
        elapsed == now - lastCollected
        periodsElapsed == elapsed \div FUNDING_PERIOD_MS
        currentRate8h == IF has THEN SpreadOf(spreads, pos.asset).rate8h ELSE 0
        direction == IF pos.side = "short_perp" THEN 1 ELSE 0 - 1
        \* size_usd * (rate8h / 8) * periodsElapsed * direction
        fundingEarned ==
            Scale(pos.size_usd, currentRate8h * periodsElapsed * direction, 8 * FracDen)
        collected == has /\ periodsElapsed > 0 /\ ~(Abs(fundingEarned) < FUNDING_DUST)
    IN  [ collected |-> collected,
          fundingEarned |-> IF collected THEN fundingEarned ELSE 0,
          periodsElapsed |-> periodsElapsed,
          newFundingCollected |->
              IF collected THEN pos.total_funding_collected + fundingEarned
              ELSE pos.total_funding_collected,
          newLastCollected |->
              IF collected THEN lastCollected + periodsElapsed * FUNDING_PERIOD_MS
              ELSE lastCollected ]

\* unrealizedPricePct < bound, for entry > 0; bound a fraction in ten-thousandths
PricePctBelow(side, entry, mark, bound) ==
    LET num == IF side = "short_perp" THEN entry - mark ELSE mark - entry
    IN  num * FracDen < bound * entry

\* StopLossHit with the short side's formula applied to every position
StopLossHit_ShortFormula(config, pos, spread) ==
    /\ spread.markPrice # NoPrice
    /\ pos.entry_price # NoPrice
    /\ pos.entry_price > 0
    /\ PricePctBelow("short_perp", pos.entry_price, spread.markPrice,
                     0 - Cfg(config, "stop_loss_pct", DEFAULT_STOP_LOSS_PCT))

\* the stop-loss check of Step 2
StopLossHit(config, pos, spread) ==
    LET currentExitPrice == spread.markPrice
        entryPriceForSL == pos.entry_price
        stopLossPct == Cfg(config, "stop_loss_pct", DEFAULT_STOP_LOSS_PCT)
    IN  /\ currentExitPrice # NoPrice
        /\ entryPriceForSL # NoPrice
        /\ entryPriceForSL > 0
        /\ PricePctBelow(pos.side, entryPriceForSL, currentExitPrice, 0 - stopLossPct)

\* StrategyExit with the long side's comparison applied to a regime_adaptive short
StrategyExit_ShortAsLong(strategy_name, config, pos, spread) ==
    LET hlRate == spread.rate8h
        exitThreshold ==
            Cfg(config, "exit_rate_threshold", DefaultExitRateThreshold(strategy_name))
    IN  IF strategy_name = "negative_fade" THEN hlRate > exitThreshold
        ELSE IF strategy_name = "regime_adaptive" THEN hlRate > exitThreshold
        ELSE spread.maxSpread <
                 Cfg(config, "exit_spread_threshold", DEFAULT_EXIT_SPREAD_THRESHOLD)

\* the strategy-specific exit rule of Step 2
StrategyExit(strategy_name, config, pos, spread) ==
    LET hlRate == spread.rate8h
        exitThreshold ==
            Cfg(config, "exit_rate_threshold", DefaultExitRateThreshold(strategy_name))
    IN  IF strategy_name = "negative_fade" THEN hlRate > exitThreshold
        ELSE IF strategy_name = "regime_adaptive" THEN
            IF pos.side = "long_perp" THEN hlRate > exitThreshold
            ELSE hlRate < 0 - exitThreshold
        ELSE spread.maxSpread <
                 Cfg(config, "exit_spread_threshold", DEFAULT_EXIT_SPREAD_THRESHOLD)

\* PriceReturn with the short side's sign applied to every position
PriceReturn_ShortSign(pos, exitPrice) ==
    IF exitPrice # NoPrice /\ pos.entry_price # NoPrice /\ pos.entry_price > 0
    THEN Scale(pos.size_usd, pos.entry_price - exitPrice, pos.entry_price)
    ELSE 0

\* priceReturn of the exit accounting
PriceReturn(pos, exitPrice) ==
    LET entryPrice == pos.entry_price
    IN  IF exitPrice # NoPrice /\ entryPrice # NoPrice /\ entryPrice > 0
        THEN IF pos.side = "short_perp"
             THEN Scale(pos.size_usd, entryPrice - exitPrice, entryPrice)
             ELSE Scale(pos.size_usd, exitPrice - entryPrice, entryPrice)
        ELSE 0

\* what is returned to cash when pos is closed
CloseCredit(pos, priceReturn, exitFee) ==
    pos.size_usd + priceReturn + pos.total_funding_collected - exitFee

\* ExitOf closing a position whose asset has no spread
ExitOf_ExitsUnlisted(portfolio, pos, spreads) ==
    LET config == portfolio.strategy_config
        has == HasSpread(spreads, pos.asset)
        spread == SpreadOf(spreads, pos.asset)
        stopLoss == has /\ StopLossHit(config, pos, spread)
        shouldExit ==
            has => (stopLoss \/ StrategyExit(portfolio.strategy_name, config, pos, spread))
        exitPrice == IF has THEN spread.markPrice ELSE NoPrice
        priceReturn == PriceReturn(pos, exitPrice)
        exitFee == Frac(pos.size_usd, TRADING_FEE)
    IN  [ shouldExit |-> shouldExit,
          exitReason |-> IF stopLoss THEN "stop_loss" ELSE "strategy",
          exitPrice |-> exitPrice,
          priceReturn |-> priceReturn,
          exitFee |-> exitFee,
          realizedPnl |-> priceReturn + pos.total_funding_collected - exitFee,
          credit |-> CloseCredit(pos, priceReturn, exitFee) ]

\* Step 2 for one open position
ExitOf(portfolio, pos, spreads) ==
    LET config == portfolio.strategy_config
        has == HasSpread(spreads, pos.asset)
        spread == SpreadOf(spreads, pos.asset)
        stopLoss == has /\ StopLossHit(config, pos, spread)
        shouldExit ==
            has /\ (stopLoss \/ StrategyExit(portfolio.strategy_name, config, pos, spread))
        exitPrice == IF has THEN spread.markPrice ELSE NoPrice
        priceReturn == PriceReturn(pos, exitPrice)
        exitFee == Frac(pos.size_usd, TRADING_FEE)
    IN  [ shouldExit |-> shouldExit,
          exitReason |-> IF stopLoss THEN "stop_loss" ELSE "strategy",
          exitPrice |-> exitPrice,
          priceReturn |-> priceReturn,
          exitFee |-> exitFee,
          realizedPnl |-> priceReturn + pos.total_funding_collected - exitFee,
          credit |-> CloseCredit(pos, priceReturn, exitFee) ]

\* Step 3: the candidate list of a strategy, filtered and ranked
Candidates(strategy_name, config, allSpreads, openAssets) ==
    LET ByRateAsc(l) == SortAsc(l, [i \in 1..Len(l) |-> l[i].rate8h])
        ByRateDesc(l) == SortAsc(l, [i \in 1..Len(l) |-> 0 - l[i].rate8h])
        BySpreadDesc(l) == SortAsc(l, [i \in 1..Len(l) |-> 0 - l[i].maxSpread])
        ByOiDesc(l) == SortAsc(l, [i \in 1..Len(l) |-> 0 - l[i].openInterest])
        entrySpread ==
            Cfg(config, "enter_spread_threshold",
                Cfg(config, "entry_spread_threshold",
                    DefaultEnterSpreadThreshold(strategy_name)))
    IN  IF strategy_name = "negative_fade" THEN
            LET entryThreshold ==
                    Cfg(config, "enter_rate_threshold",
                        Cfg(config, "entry_rate_threshold", DefaultEnterRateThreshold))
            IN  ByRateAsc(SelectSeq(allSpreads,
                    LAMBDA x : x.rate8h < entryThreshold /\ x.asset \notin openAssets))
        ELSE IF strategy_name = "conservative" THEN
            LET allowedAssets == Cfg(config, "allowed_assets", {"BTC", "ETH"})
            IN  BySpreadDesc(SelectSeq(allSpreads,
                    LAMBDA x : /\ x.asset \in allowedAssets
                               /\ x.maxSpread > entrySpread
                               /\ x.rate8h > 0
                               /\ x.asset \notin openAssets))
        ELSE IF strategy_name = "diversified" THEN
            LET topN == Cfg(config, "top_n_by_oi", DEFAULT_TOP_N_BY_OI)
                byOI == ByOiDesc(SelectSeq(allSpreads, LAMBDA x : x.openInterest # 0))
                withOI == SubSeq(byOI, 1, Min(topN, Len(byOI)))
            IN  BySpreadDesc(SelectSeq(withOI,
                    LAMBDA x : /\ x.maxSpread > entrySpread
                               /\ x.rate8h > 0
                               /\ x.asset \notin openAssets))
        ELSE IF strategy_name = "regime_adaptive" THEN
            LET positiveThreshold ==
                    Cfg(config, "positive_rate_threshold", DefaultPositiveRateThreshold)
                negativeThreshold ==
                    Cfg(config, "negative_rate_threshold", DefaultNegativeRateThreshold)
                shortCandidates == ByRateDesc(SelectSeq(allSpreads,
                    LAMBDA x : x.rate8h > positiveThreshold /\ x.asset \notin openAssets))
                longCandidates == ByRateAsc(SelectSeq(allSpreads,
                    LAMBDA x : x.rate8h < negativeThreshold /\ x.asset \notin openAssets))
                bestShortRate ==
                    IF shortCandidates = << >> THEN 0 ELSE shortCandidates[1].rate8h
                bestLongRate ==
                    IF longCandidates = << >> THEN 0 ELSE Abs(longCandidates[1].rate8h)
            IN  IF bestLongRate >= bestShortRate THEN longCandidates ELSE shortCandidates
        ELSE
            BySpreadDesc(SelectSeq(allSpreads,
                LAMBDA x : /\ x.maxSpread > entrySpread
                           /\ x.rate8h > 0
                           /\ x.asset \notin openAssets))

\* side of a new position
SideOf(strategy_name, hlRate) ==
    IF strategy_name = "negative_fade" \/ (strategy_name = "regime_adaptive" /\ hlRate < 0)
    THEN "long_perp" ELSE "short_perp"

\* PositionSize with the fee reserve taken off the minimum instead of off the cash
PositionSize_ReserveOutside(maxPositionSize, cashBalance) ==
    Min(maxPositionSize, cashBalance) - Frac(maxPositionSize, TRADING_FEE)

\* positionSize of the entry loop
PositionSize(maxPositionSize, cashBalance) ==
    Min(maxPositionSize, cashBalance - Frac(maxPositionSize, TRADING_FEE))

\* EntryCapReached without the count of the assets held
EntryCapReached_NoAssetCount(nRemaining, nRemoved, nOpenAssets, maxPositions) ==
    nRemaining + nRemoved >= maxPositions

\* the cap checks at the head of the entry loop: TRUE = break
EntryCapReached(nRemaining, nRemoved, nOpenAssets, maxPositions) ==
    \/ nRemaining + nRemoved >= maxPositions
    \/ nOpenAssets >= maxPositions

\* the row inserted for a new position
NewPosition(id, portfolio, candidate, side, positionSize, now) ==
    [ id |-> id,
      portfolio_id |-> portfolio.id,
      asset |-> candidate.asset,
      side |-> side,
      size_usd |-> positionSize,
      entry_rate_8h |-> candidate.rate8h,
      entry_spread |-> candidate.maxSpread,
      entry_price |-> candidate.markPrice,
      total_funding_collected |-> 0,
      last_funding_collected |-> now,
      opened_at |-> now,
      fees_paid |-> Frac(positionSize, TRADING_FEE),
      is_open |-> TRUE,
      exit_price |-> NoPrice,
      realized_pnl |-> 0,
      closed_at |-> NoTime ]

Txn(portfolio_id, position_id, type, asset, amount, note) ==
    [ portfolio_id |-> portfolio_id, position_id |-> position_id, type |-> type,
      asset |-> asset, amount |-> amount, note |-> note ]

RECURSIVE EntryLoop_FullSize(_, _, _, _)
\* EntryLoop opening every position at maxPositionSize, whatever the cash
EntryLoop_FullSize(cands, i, st, cx) ==
    IF i > Len(cands) THEN st
    ELSE
        LET candidate == cands[i]
            positionSize == cx.maxPositionSize
            fee == Frac(positionSize, TRADING_FEE)
            side == SideOf(cx.portfolio.strategy_name, candidate.rate8h)
            id == cx.baseId + Len(st.rows) + 1
        IN  IF EntryCapReached(cx.nRemaining, cx.nRemoved,
                               Cardinality(st.openAssets), cx.maxPositions)
            THEN st
            ELSE IF positionSize < Usd(MIN_POSITION_USD) THEN st
            ELSE IF candidate.asset \in cx.remainingAssets
            THEN EntryLoop_FullSize(cands, i + 1, st, cx)
            ELSE IF candidate.asset \in cx.failing
            THEN EntryLoop_FullSize(cands, i + 1, [st EXCEPT !.insertErr = TRUE], cx)
            ELSE EntryLoop_FullSize(cands, i + 1,
                    [ cashBalance |-> st.cashBalance - (positionSize + fee),
                      openAssets |-> st.openAssets \cup {candidate.asset},
                      rows |-> Append(st.rows,
                          NewPosition(id, cx.portfolio, candidate, side, positionSize, cx.now)),
                      txs |-> st.txs \o
                          << Txn(cx.portfolio.id, NoId, "open", candidate.asset,
                                 0 - positionSize, ""),
                             Txn(cx.portfolio.id, NoId, "fee", candidate.asset, 0 - fee, "") >>,
                      opened |-> Append(st.opened,
                          [ id |-> id, cashBefore |-> st.cashBalance,
                            cashAfter |-> st.cashBalance - (positionSize + fee) ]),
                      insertErr |-> st.insertErr ],
                    cx)

RECURSIVE EntryLoop(_, _, _, _)
\* `for (const candidate of candidates)`: st is what the loop has done so far,
\* cx what it reads; cx.failing are the assets whose insert the store rejects
EntryLoop(cands, i, st, cx) ==
    IF i > Len(cands) THEN st
    ELSE
        LET candidate == cands[i]
            positionSize == PositionSize(cx.maxPositionSize, st.cashBalance)
            fee == Frac(positionSize, TRADING_FEE)
            side == SideOf(cx.portfolio.strategy_name, candidate.rate8h)
            id == cx.baseId + Len(st.rows) + 1
        IN  IF EntryCapReached(cx.nRemaining, cx.nRemoved,
                               Cardinality(st.openAssets), cx.maxPositions)
            THEN st
            ELSE IF positionSize < Usd(MIN_POSITION_USD) THEN st
            ELSE IF st.cashBalance < positionSize + fee THEN st
            ELSE IF candidate.asset \in cx.remainingAssets
            THEN EntryLoop(cands, i + 1, st, cx)
            ELSE IF candidate.asset \in cx.failing
            THEN EntryLoop(cands, i + 1, [st EXCEPT !.insertErr = TRUE], cx)
            ELSE EntryLoop(cands, i + 1,
                    [ cashBalance |-> st.cashBalance - (positionSize + fee),
                      openAssets |-> st.openAssets \cup {candidate.asset},
                      rows |-> Append(st.rows,
                          NewPosition(id, cx.portfolio, candidate, side, positionSize, cx.now)),
                      txs |-> st.txs \o
                          << Txn(cx.portfolio.id, NoId, "open", candidate.asset,
                                 0 - positionSize, ""),
                             Txn(cx.portfolio.id, NoId, "fee", candidate.asset, 0 - fee, "") >>,
                      opened |-> Append(st.opened,
                          [ id |-> id, cashBefore |-> st.cashBalance,
                            cashAfter |-> st.cashBalance - (positionSize + fee) ]),
                      insertErr |-> st.insertErr ],
                    cx)

-----------------------------------------------------------------------------
(* Paper trading: processPortfolio as a whole *)

\* Remaining with the filter turned round: it keeps the positions just closed
Remaining_Inverted(openPositions, positionsToRemove) ==
    SelectSeq(openPositions, LAMBDA r : r.id \in Range(positionsToRemove))

\* remainingPositions
Remaining(openPositions, positionsToRemove) ==
    SelectSeq(openPositions, LAMBDA r : r.id \notin Range(positionsToRemove))

\* maxPositionSize of Step 3
MaxPositionSize(config, cashBalance, remainingPositions) ==
    LET totalPositionValue ==
            SumSeq([i \in 1..Len(remainingPositions) |-> remainingPositions[i].size_usd])
        totalValue == cashBalance + totalPositionValue
    IN  Frac(totalValue, Cfg(config, "max_position_size_pct", DEFAULT_MAX_POSITION_SIZE_PCT))

\* the gate in front of the entry loop
EntryGate(nRemaining, maxPositions, cashBalance, maxPositionSize) ==
    nRemaining < maxPositions /\ 2 * cashBalance > maxPositionSize

\* a store call that fails: none, or one call of the cycle
NoFault == [op |-> "none", asset |-> ""]
Faults ==
    { NoFault,
      [op |-> "select_portfolios", asset |-> ""],
      [op |-> "select_positions", asset |-> ""],
      [op |-> "update_portfolio", asset |-> ""],
      [op |-> "select_trader", asset |-> ""] }
    \cup { [op |-> "insert_position", asset |-> Assets[i]] : i \in 1..Len(Assets) }

\* processPortfolio keeps its locals in a frame c; each step below reads the frame
\* the step before it left

\* LoadPositions without the is_open filter of the select
LoadPositions_AllRows(portfolio, spreads, now, positions, transactions, fault) ==
    [ portfolio |-> portfolio, spreads |-> spreads, now |-> now, fault |-> fault,
      positions |-> positions, transactions |-> transactions,
      openPositions |-> SelectSeq(positions, LAMBDA r : r.portfolio_id = portfolio.id),
      f |-> << >>, funded |-> << >>, fundingTxs |-> << >>, cashAfterFunding |-> 0,
      x |-> << >>, positionsToRemove |-> << >>, closeTxs |-> << >>, cashAfterExits |-> 0,
      remainingPositions |-> << >>, maxPositionSize |-> 0, maxPositions |-> 0,
      openAssets |-> {},
      st |-> [ cashBalance |-> 0, openAssets |-> {}, rows |-> << >>, txs |-> << >>,
               opened |-> << >>, insertErr |-> FALSE ] ]

\* processPortfolio, entry: `now`, the open positions of the portfolio, cashBalance
LoadPositions(portfolio, spreads, now, positions, transactions, fault) ==
    [ portfolio |-> portfolio, spreads |-> spreads, now |-> now, fault |-> fault,
      positions |-> positions, transactions |-> transactions,
      openPositions |->
          SelectSeq(positions, LAMBDA r : r.portfolio_id = portfolio.id /\ r.is_open),
      f |-> << >>, funded |-> << >>, fundingTxs |-> << >>, cashAfterFunding |-> 0,
      x |-> << >>, positionsToRemove |-> << >>, closeTxs |-> << >>, cashAfterExits |-> 0,
      remainingPositions |-> << >>, maxPositionSize |-> 0, maxPositions |-> 0,
      openAssets |-> {},
      st |-> [ cashBalance |-> 0, openAssets |-> {}, rows |-> << >>, txs |-> << >>,
               opened |-> << >>, insertErr |-> FALSE ] ]

\* Step 1: what the funding loop computes for each open position
CollectFundingEarned(c) ==
    [c EXCEPT !.f = [i \in 1..Len(c.openPositions) |->
                        FundingOf(c.openPositions[i], c.spreads, c.now)]]

\* Step 1: the rows it updates, the transactions it inserts, the cash it credits
CollectFunding(c) ==
    LET n == Len(c.openPositions)
        hit == SelectSeq([i \in 1..n |-> i], LAMBDA i : c.f[i].collected)
    IN  [c EXCEPT
            !.funded = [i \in 1..n |->
                [c.openPositions[i] EXCEPT
                    !.total_funding_collected = c.f[i].newFundingCollected,
                    !.last_funding_collected = c.f[i].newLastCollected]],
            !.fundingTxs = [j \in 1..Len(hit) |->
                Txn(c.portfolio.id, c.openPositions[hit[j]].id, "funding",
                    c.openPositions[hit[j]].asset, c.f[hit[j]].fundingEarned, "")],
            !.cashAfterFunding =
                c.portfolio.cash_balance + SumSeq([i \in 1..n |-> c.f[i].fundingEarned])]

\* the exit decision taken on the positions as they were loaded, before Step 1
CheckExitsShould_BeforeFunding(c) ==
    [c EXCEPT !.x = [i \in 1..Len(c.openPositions) |->
                        ExitOf(c.portfolio, c.openPositions[i], c.spreads)]]

\* Step 2: the exit decision for each open position
CheckExitsShould(c) ==
    [c EXCEPT !.x = [i \in 1..Len(c.funded) |->
                        ExitOf(c.portfolio, c.funded[i], c.spreads)]]

\* CheckExits with the close transaction inserted outside `if (shouldExit)`
CheckExits_TxForAll(c) ==
    LET out == SelectSeq([i \in 1..Len(c.funded) |-> i], LAMBDA i : c.x[i].shouldExit)
    IN  [c EXCEPT
            !.positionsToRemove = [j \in 1..Len(out) |-> c.funded[out[j]].id],
            !.closeTxs = [i \in 1..Len(c.funded) |->
                Txn(c.portfolio.id, c.funded[i].id, "close", c.funded[i].asset,
                    c.x[i].credit, c.x[i].exitReason)],
            !.cashAfterExits =
                c.cashAfterFunding + SumSeq([j \in 1..Len(out) |-> c.x[out[j]].credit])]

\* Step 2: the positions it closes, the transactions it inserts, the cash it credits
CheckExits(c) ==
    LET out == SelectSeq([i \in 1..Len(c.funded) |-> i], LAMBDA i : c.x[i].shouldExit)
    IN  [c EXCEPT
            !.positionsToRemove = [j \in 1..Len(out) |-> c.funded[out[j]].id],
            !.closeTxs = [j \in 1..Len(out) |->
                Txn(c.portfolio.id, c.funded[out[j]].id, "close", c.funded[out[j]].asset,
                    c.x[out[j]].credit, c.x[out[j]].exitReason)],
            !.cashAfterExits =
                c.cashAfterFunding + SumSeq([j \in 1..Len(out) |-> c.x[out[j]].credit])]

\* const remainingPositions = openPositions.filter(...)
RemainingPositions(c) ==
    [c EXCEPT !.remainingPositions = Remaining(c.funded, c.positionsToRemove)]

\* Step 3: the limits of the entry phase
EntryLimits(c) ==
    [c EXCEPT
        !.maxPositionSize =
            MaxPositionSize(c.portfolio.strategy_config, c.cashAfterExits,
                            c.remainingPositions),
        !.maxPositions = Cfg(c.portfolio.strategy_config, "max_positions",
                             DEFAULT_MAX_POSITIONS),
        !.openAssets =
            {c.remainingPositions[i].asset : i \in 1..Len(c.remainingPositions)}]

\* Step 3: the gate, the candidates and the entry loop
CheckEntries(c) ==
    [c EXCEPT !.st =
        IF EntryGate(Len(c.remainingPositions), c.maxPositions, c.cashAfterExits,
                     c.maxPositionSize)
        THEN EntryLoop(
                Candidates(c.portfolio.strategy_name, c.portfolio.strategy_config,
                           c.spreads, c.openAssets),
                1,
                [ cashBalance |-> c.cashAfterExits, openAssets |-> c.openAssets,
                  rows |-> << >>, txs |-> << >>, opened |-> << >>, insertErr |-> FALSE ],
                [ maxPositionSize |-> c.maxPositionSize, maxPositions |-> c.maxPositions,
                  nRemaining |-> Len(c.remainingPositions),
                  nRemoved |-> Len(c.positionsToRemove),
                  remainingAssets |->
                      {c.remainingPositions[i].asset : i \in 1..Len(c.remainingPositions)},
                  failing |-> IF c.fault.op = "insert_position" THEN {c.fault.asset}
                              ELSE {},
                  portfolio |-> c.portfolio, now |-> c.now,
                  baseId |-> Len(c.positions) ])
        ELSE [ cashBalance |-> c.cashAfterExits, openAssets |-> c.openAssets,
               rows |-> << >>, txs |-> << >>, opened |-> << >>, insertErr |-> FALSE ]]

\* the row of position k once the call is over
StoredPosition(c, k) ==
    LET at == { i \in 1..Len(c.funded) : c.funded[i].id = k }
        i == CHOOSE j \in at : TRUE
    IN  IF at = {} THEN c.positions[k]
        ELSE IF c.x[i].shouldExit
        THEN [c.funded[i] EXCEPT !.is_open = FALSE,
                                 !.exit_price = c.x[i].exitPrice,
                                 !.realized_pnl = c.x[i].realizedPnl,
                                 !.closed_at = c.now]
        ELSE c.funded[i]

\* what is kept of a call for the properties
Call(c, done, clean) ==
    [ done |-> done, clean |-> clean, repeat |-> FALSE,
      portfolio |-> c.portfolio, now |-> c.now, spreads |-> c.spreads,
      loaded |-> c.openPositions, f |-> c.f, funded |-> c.funded, x |-> c.x,
      positionsToRemove |-> c.positionsToRemove, opened |-> c.st.opened,
      cashAfterFunding |-> c.cashAfterFunding, cashAfterExits |-> c.cashAfterExits,
      cashBalance |-> c.st.cashBalance, maxPositionSize |-> c.maxPositionSize,
      txAtLoad |-> Len(c.transactions), rowsAtLoad |-> Len(c.positions),
      updateErr |-> c.fault.op = "update_portfolio" ]

\* the end of processPortfolio: the tables it leaves and the cash balance it stores
UpdateCash(c) ==
    [ positions |-> [k \in 1..Len(c.positions) |-> StoredPosition(c, k)] \o c.st.rows,
      transactions |-> c.transactions \o c.fundingTxs \o c.closeTxs \o c.st.txs,
      cash_balance |-> IF c.fault.op = "update_portfolio" THEN c.portfolio.cash_balance
                       ELSE c.st.cashBalance,
      storeError |-> c.st.insertErr \/ c.fault.op = "update_portfolio",
      call |-> Call(c, TRUE, ~(c.st.insertErr \/ c.fault.op = "update_portfolio")) ]

\* the return on posErr
LoadFailed(c) ==
    [ positions |-> c.positions, transactions |-> c.transactions,
      cash_balance |-> c.portfolio.cash_balance, storeError |-> TRUE,
      call |-> Call([c EXCEPT !.openPositions = << >>], FALSE, FALSE) ]

\* processPortfolio(db, portfolio, spreadsMap, allSpreads) at time now over the tables
\* positions and transactions
ProcessPortfolio(portfolio, spreads, now, positions, transactions, fault) ==
    IF fault.op = "select_positions"
    THEN LoadFailed(LoadPositions(portfolio, spreads, now, positions, transactions, fault))
    ELSE UpdateCash(CheckEntries(EntryLimits(RemainingPositions(CheckExits(CheckExitsShould(
            CollectFunding(CollectFundingEarned(
                LoadPositions(portfolio, spreads, now, positions, transactions,
                              fault)))))))))

-----------------------------------------------------------------------------
(* The store at start *)

PortfolioId == "p1"

\* strategy and strategy_config of the portfolio row
Seeds ==
    { [strategy_name |-> "aggressive", strategy_config |-> [max_positions |-> 1]],
      [strategy_name |-> "conservative",
       strategy_config |-> [entry_spread_threshold |-> 300, max_position_size_pct |-> FracDen]],
      [strategy_name |-> "diversified", strategy_config |-> [top_n_by_oi |-> 1]],
      [strategy_name |-> "negative_fade", strategy_config |-> [stop_loss_pct |-> 1500]],
      [strategy_name |-> "regime_adaptive", strategy_config |-> [max_positions |-> 5]] }

InitialBalance == Usd(10000)

\* no processPortfolio call yet, or the cycle returned before it reached one
NoCall ==
    [ done |-> FALSE, clean |-> FALSE, repeat |-> FALSE,
      portfolio |-> << >>, now |-> 0, spreads |-> << >>,
      loaded |-> << >>, f |-> << >>, funded |-> << >>, x |-> << >>,
      positionsToRemove |-> << >>, opened |-> << >>, cashAfterFunding |-> 0,
      cashAfterExits |-> 0, cashBalance |-> 0, maxPositionSize |-> 0, txAtLoad |-> 0,
      rowsAtLoad |-> 0, updateErr |-> FALSE ]

\* the portfolio rows in the order the store returns them
PortfolioIds == << "p1", "p2" >>

\* strategy_config null
NoConfig == [null |-> TRUE]

\* processPortfolio reads config.max_position_size_pct at the head of Step 3 and
\* config.stop_loss_pct in Step 2: with a null config it throws a TypeError, for a
\* portfolio without open positions before it has written anything
Throws(portfolio) == portfolio.strategy_config = NoConfig

\* no runPaperTradingCycle call yet
NoCycle == [called |-> FALSE, ran |-> FALSE, active |-> {}, processed |-> << >>]

\* what the loop over the portfolios has done so far
LoopState(positions, transactions, portfolios) ==
    [ positions |-> positions, transactions |-> transactions, portfolios |-> portfolios,
      storeErrors |-> 0, call |-> NoCall, processed |-> << >> ]

RECURSIVE RunPortfolios_AbortOnThrow(_, _, _, _, _, _)
\* the loop without its try/catch: the first exception ends the cycle
RunPortfolios_AbortOnThrow(portfolios, i, s, spreads, now, fault) ==
    IF i > Len(portfolios) THEN s
    ELSE IF Throws(portfolios[i])
    THEN [s EXCEPT !.processed = Append(@, [id |-> portfolios[i].id, threw |-> TRUE])]
    ELSE LET r == ProcessPortfolio(portfolios[i], spreads, now, s.positions,
                                   s.transactions, IF i = 1 THEN fault ELSE NoFault)
         IN  RunPortfolios_AbortOnThrow(portfolios, i + 1,
                 [ positions |-> r.positions, transactions |-> r.transactions,
                   portfolios |-> [s.portfolios EXCEPT
                                      ![portfolios[i].id].cash_balance = r.cash_balance],
                   storeErrors |-> s.storeErrors + (IF r.storeError THEN 1 ELSE 0),
                   call |-> r.call,
                   processed |-> Append(s.processed,
                                        [id |-> portfolios[i].id, threw |-> FALSE]) ],
                 spreads, now, fault)

RECURSIVE RunPortfolios(_, _, _, _, _, _)
\* runPaperTradingCycle, the loop: processPortfolio for each loaded portfolio in turn,
\* an exception caught and logged; the store fault of the cycle, if any, hits the
\* first portfolio
RunPortfolios(portfolios, i, s, spreads, now, fault) ==
    IF i > Len(portfolios) THEN s
    ELSE IF Throws(portfolios[i])
    THEN RunPortfolios(portfolios, i + 1,
             [s EXCEPT !.processed = Append(@, [id |-> portfolios[i].id, threw |-> TRUE])],
             spreads, now, fault)
    ELSE LET r == ProcessPortfolio(portfolios[i], spreads, now, s.positions,
                                   s.transactions, IF i = 1 THEN fault ELSE NoFault)
         IN  RunPortfolios(portfolios, i + 1,
                 [ positions |-> r.positions, transactions |-> r.transactions,
                   portfolios |-> [s.portfolios EXCEPT
                                      ![portfolios[i].id].cash_balance = r.cash_balance],
                   storeErrors |-> s.storeErrors + (IF r.storeError THEN 1 ELSE 0),
                   call |-> r.call,
                   processed |-> Append(s.processed,
                                        [id |-> portfolios[i].id, threw |-> FALSE]) ],
                 spreads, now, fault)

-----------------------------------------------------------------------------
(* The poll loop *)

\* time passes between two cycles: an hour and a half
TickMs == 3 * (FUNDING_PERIOD_MS \div 2)

Tick(d) ==
    /\ clock + d <= MaxTicks * TickMs
    /\ clock' = clock + d
    /\ UNCHANGED << fanOutVars, llm, http, analytics, cached, cachedAt, paperVars, storeErrors, aiVars, loopVars >>

\* poll(): aggregateRates() -> updateCache(result) -> runPaperTradingCycle(), which
\* reads the cache, returns on an empty aggregate, loads the active portfolios and
\* calls processPortfolio for each
poll(result, fault) ==
    /\ fault.op # "none" => storeErrors < MaxStoreErrors
    /\ Len(paper_positions) < MaxPositionRows
    /\ Len(ai_decisions) < MaxAiDecisions
    /\ cached' = result
    /\ cachedAt' = clock
    /\ LET pErr == fault.op = "select_portfolios"
           stored == SelectSeq(PortfolioIds, LAMBDA id : id \in DOMAIN paper_portfolios)
           portfolios == SelectSeq([k \in 1..Len(stored) |-> paper_portfolios[stored[k]]],
                                   LAMBDA r : r.is_active)
           active == { portfolios[k].id : k \in 1..Len(portfolios) }
       IN  IF Len(result) = 0
           THEN /\ pp' = NoCall
                /\ cycle' = [NoCycle EXCEPT !.called = TRUE, !.active = active]
                /\ UNCHANGED << paper_portfolios, paper_positions, paper_transactions,
                                storeErrors >>
           ELSE IF pErr \/ portfolios = << >>
           THEN /\ pp' = NoCall
                /\ cycle' = [NoCycle EXCEPT !.called = TRUE, !.active = active]
                /\ storeErrors' = IF pErr THEN storeErrors + 1 ELSE storeErrors
                /\ UNCHANGED << paper_portfolios, paper_positions, paper_transactions >>
           ELSE LET s == RunPortfolios(portfolios, 1,
                             LoopState(paper_positions, paper_transactions,
                                       paper_portfolios),
                             result, clock, fault)
                IN  /\ paper_positions' = s.positions
                    /\ paper_transactions' = s.transactions
                    /\ paper_portfolios' = s.portfolios
                    /\ storeErrors' = storeErrors + s.storeErrors
                    /\ pp' = [s.call EXCEPT !.repeat = /\ pp.done /\ pp.clean
                                                        /\ pp.now = clock
                                                        /\ pp.spreads = result]
                    /\ cycle' = [ called |-> TRUE, ran |-> TRUE, active |-> active,
                                  processed |-> s.processed ]
    /\ UNCHANGED << fanOutVars, llm, http, analytics, clock, aiVars, loopVars >>

-----------------------------------------------------------------------------
(* AI traders: runAiTraderCycle *)

TraderId == "t1"
TraderName == "momentum"
TraderNames == { TraderName, "nobody" }     \* the :name of POST /api/ai/run/:name

NoAsset == ""           \* decision.asset undefined
NoSize == 0 - 1         \* decision.size_usd undefined

\* what callLLM returns: the parsed decision, or its hold fallback
Decision(action, asset, size_usd) ==
    [ action |-> action, asset |-> asset, size_usd |-> size_usd ]
Decisions ==
    { Decision("hold", NoAsset, NoSize),
      Decision("open_long", "BTC", NoSize),
      Decision("open_short", NoAsset, Usd(5000)),
      Decision("open_short", "ETH", Usd(1000)),
      Decision("close", "BTC", NoSize),
      Decision("close", "ETH", NoSize) }

\* getCachedRates(): is the cache still served
CacheFresh(at, now) == at # NoTime /\ now - at < CACHE_TTL_MS

\* spread?.hl?.markPrice ?? null
MarkOf(spreads, a) == IF HasSpread(spreads, a) THEN SpreadOf(spreads, a).markPrice ELSE NoPrice

\* computeUnrealizedPnl(pos, currentPrice)
computeUnrealizedPnl(pos, currentPrice) ==
    IF currentPrice = NoPrice \/ pos.entry_price_approx = NoPrice THEN 0
    ELSE IF pos.direction = "long"
    THEN Scale(pos.size_usd, currentPrice - pos.entry_price_approx, pos.entry_price_approx)
    ELSE Scale(pos.size_usd, pos.entry_price_approx - currentPrice, pos.entry_price_approx)

\* closePosition returning the funding collected with the rest, as the paper engine does
closePosition_CreditsFunding(pos, spreads, now) ==
    LET exitPrice == MarkOf(spreads, pos.asset)
        unrealizedPnl == computeUnrealizedPnl(pos, exitPrice)
        exitFee == Frac(pos.size_usd, TRADING_FEE)
        realizedPnl == unrealizedPnl + pos.funding_collected - pos.fees_paid - exitFee
    IN  [ row |-> [pos EXCEPT !.is_open = FALSE, !.pnl = realizedPnl, !.closed_at = now],
          cashReturn |-> pos.size_usd + unrealizedPnl + pos.funding_collected - exitFee ]

\* closePosition(db, pos, currentRates, now, reason): the row it stores and the cash
\* it returns
closePosition(pos, spreads, now) ==
    LET exitPrice == MarkOf(spreads, pos.asset)
        unrealizedPnl == computeUnrealizedPnl(pos, exitPrice)
        exitFee == Frac(pos.size_usd, TRADING_FEE)
        realizedPnl == unrealizedPnl + pos.funding_collected - pos.fees_paid - exitFee
    IN  [ row |-> [pos EXCEPT !.is_open = FALSE, !.pnl = realizedPnl, !.closed_at = now],
          cashReturn |-> pos.size_usd + unrealizedPnl - exitFee ]

\* the funding part of the loop over the open positions, for one position
AiFundingOf(pos, spreads, now) ==
    LET has == HasSpread(spreads, pos.asset)
        lastCollected == pos.last_funding_at
        elapsed == now - lastCollected
        periodsElapsed == elapsed \div FUNDING_PERIOD_MS
        currentRate8h == IF has THEN SpreadOf(spreads, pos.asset).rate8h ELSE 0
        direction == IF pos.direction = "short" THEN 1 ELSE 0 - 1
        fundingEarned ==
            Scale(pos.size_usd, currentRate8h * periodsElapsed * direction, 8 * FracDen)
        collected == has /\ periodsElapsed > 0 /\ Abs(fundingEarned) >= FUNDING_DUST
    IN  [ collected |-> collected,
          fundingEarned |-> IF collected THEN fundingEarned ELSE 0,
          newFunding |-> IF collected THEN pos.funding_collected + fundingEarned
                         ELSE pos.funding_collected,
          newLastFunding |-> IF collected THEN lastCollected + periodsElapsed * FUNDING_PERIOD_MS
                             ELSE lastCollected ]

\* the stop-loss part of that loop
AiStopLossHit(pos, spreads) ==
    LET entryPrice == pos.entry_price_approx
        currentPrice == MarkOf(spreads, pos.asset)
    IN  /\ HasSpread(spreads, pos.asset)
        /\ entryPrice # NoPrice /\ currentPrice # NoPrice /\ entryPrice > 0
        /\ PricePctBelow(IF pos.direction = "long" THEN "long_perp" ELSE "short_perp",
                         entryPrice, currentPrice, 0 - STOP_LOSS_PCT)

AiDecisionRow(trader_id, action, asset, size_usd, reasoning) ==
    [ trader_id |-> trader_id, action |-> action, asset |-> asset, size_usd |-> size_usd,
      reasoning |-> reasoning ]

\* ExecuteOpen with the cap tested as `> 3`
ExecuteOpen_CapOffByOne(decision, remainingPositions, cashBalance, totalValue) ==
    LET maxSize == Frac(totalValue, AI_MAX_SIZE_PCT)
        size0 == Min(IF decision.size_usd = NoSize THEN maxSize ELSE decision.size_usd,
                     maxSize)
        fee == Frac(size0, TRADING_FEE)
        asset == IF decision.asset = NoAsset THEN "BTC" ELSE decision.asset
        atCap == Len(remainingPositions) > AI_MAX_POSITIONS
        short == ~atCap /\ cashBalance < size0 + fee
        size == IF short THEN Max(0, cashBalance - fee) ELSE size0
        tooSmall == short /\ size < Usd(MIN_POSITION_USD)
        existingOpen == \E i \in 1..Len(remainingPositions) :
                            remainingPositions[i].asset = asset
    IN  [ open |-> ~atCap /\ ~tooSmall /\ ~existingOpen,
          reasoning |-> IF atCap THEN "max positions"
                        ELSE IF tooSmall THEN "insufficient cash"
                        ELSE IF existingOpen THEN "already open"
                        ELSE "llm",
          asset |-> asset,
          side |-> IF decision.action = "open_long" THEN "long" ELSE "short",
          size |-> size,
          tradingFee |-> Frac(size, TRADING_FEE) ]

\* Step 5 for open_long / open_short: what is opened, or why the decision turns hold
ExecuteOpen(decision, remainingPositions, cashBalance, totalValue) ==
    LET maxSize == Frac(totalValue, AI_MAX_SIZE_PCT)
        size0 == Min(IF decision.size_usd = NoSize THEN maxSize ELSE decision.size_usd,
                     maxSize)
        fee == Frac(size0, TRADING_FEE)
        asset == IF decision.asset = NoAsset THEN "BTC" ELSE decision.asset
        atCap == Len(remainingPositions) >= AI_MAX_POSITIONS
        short == ~atCap /\ cashBalance < size0 + fee
        size == IF short THEN Max(0, cashBalance - fee) ELSE size0
        tooSmall == short /\ size < Usd(MIN_POSITION_USD)
        existingOpen == \E i \in 1..Len(remainingPositions) :
                            remainingPositions[i].asset = asset
    IN  [ open |-> ~atCap /\ ~tooSmall /\ ~existingOpen,
          reasoning |-> IF atCap THEN "max positions"
                        ELSE IF tooSmall THEN "insufficient cash"
                        ELSE IF existingOpen THEN "already open"
                        ELSE "llm",
          asset |-> asset,
          side |-> IF decision.action = "open_long" THEN "long" ELSE "short",
          size |-> size,
          tradingFee |-> Frac(size, TRADING_FEE) ]

\* no runAiTraderCycle call yet
NoAiCall ==
    [ threw |-> FALSE, done |-> FALSE, now |-> 0, spreads |-> << >>, loaded |-> << >>,
      stopLossClosedIds |-> << >>, shown |-> << >>,
      decision |-> Decision("hold", NoAsset, NoSize),
      action |-> "hold", openedId |-> NoId, closedId |-> NoId, decisionsAtLoad |-> 0,
      cashAtLoad |-> 0, cashBalance |-> 0, totalValue |-> 0 ]

\* runAiTraderCycle keeps its locals in a frame c; each step below reads the frame the
\* step before it left

\* AiLoad without `.eq('trader_id', t.id)`: the open positions of every trader
AiLoad_AllTraders(t, spreads, now, positions, decisions, decision) ==
    [ t |-> t, spreads |-> spreads, now |-> now, positions |-> positions,
      decisions |-> decisions, decision |-> decision,
      openPositions |-> SelectSeq(positions, LAMBDA r : r.is_open),
      f |-> << >>, funded |-> << >>, stopped |-> << >>, closedRows |-> << >>,
      cashAfterLoop |-> 0, remainingPositions |-> << >>, totalValue |-> 0,
      o |-> [ open |-> FALSE, reasoning |-> "", asset |-> "", side |-> "", size |-> 0,
              tradingFee |-> 0 ],
      toClose |-> << >>, closed |-> << >> ]

\* Step 1: the trader, its open positions, cashBalance, `now`, the cached rates
AiLoad(t, spreads, now, positions, decisions, decision) ==
    [ t |-> t, spreads |-> spreads, now |-> now, positions |-> positions,
      decisions |-> decisions, decision |-> decision,
      openPositions |-> SelectSeq(positions, LAMBDA r : r.trader_id = t.id /\ r.is_open),
      f |-> << >>, funded |-> << >>, stopped |-> << >>, closedRows |-> << >>,
      cashAfterLoop |-> 0, remainingPositions |-> << >>, totalValue |-> 0,
      o |-> [ open |-> FALSE, reasoning |-> "", asset |-> "", side |-> "", size |-> 0,
              tradingFee |-> 0 ],
      toClose |-> << >>, closed |-> << >> ]

\* Step 2: what the loop computes as funding for each open position
AiFundingEarned(c) ==
    [c EXCEPT !.f = [i \in 1..Len(c.openPositions) |->
                        AiFundingOf(c.openPositions[i], c.spreads, c.now)]]

\* Step 2: the positions with their funding collected
AiCollectFunding(c) ==
    [c EXCEPT !.funded = [i \in 1..Len(c.openPositions) |->
        [c.openPositions[i] EXCEPT !.funding_collected = c.f[i].newFunding,
                                   !.last_funding_at = c.f[i].newLastFunding]]]

\* Step 2: the positions the stop loss closes
AiStopLoss(c) ==
    [c EXCEPT !.stopped = SelectSeq([i \in 1..Len(c.funded) |-> i],
                                    LAMBDA i : AiStopLossHit(c.funded[i], c.spreads))]

\* Step 2: closePosition for each of them
AiStopLossClose(c) ==
    [c EXCEPT !.closedRows = [j \in 1..Len(c.stopped) |->
                                closePosition(c.funded[c.stopped[j]], c.spreads, c.now)]]

\* AiRemaining with every loaded position kept in remainingPositions
AiRemaining_KeepsStopped(c) ==
    [c EXCEPT
        !.cashAfterLoop =
            c.t.cash_balance + SumSeq([i \in 1..Len(c.f) |-> c.f[i].fundingEarned])
                + SumSeq([j \in 1..Len(c.closedRows) |-> c.closedRows[j].cashReturn]),
        !.remainingPositions = c.funded]

\* cashBalance after the loop, and remainingPositions
AiRemaining(c) ==
    [c EXCEPT
        !.cashAfterLoop =
            c.t.cash_balance + SumSeq([i \in 1..Len(c.f) |-> c.f[i].fundingEarned])
                + SumSeq([j \in 1..Len(c.closedRows) |-> c.closedRows[j].cashReturn]),
        !.remainingPositions =
            SelectSeq(c.funded,
                      LAMBDA r : \A j \in 1..Len(c.closedRows) : c.closedRows[j].row.id # r.id)]

\* Step 3: totalValue
AiTotalValue(c) ==
    [c EXCEPT !.totalValue =
        c.cashAfterLoop
            + SumSeq([i \in 1..Len(c.remainingPositions) |->
                c.remainingPositions[i].size_usd
                    + computeUnrealizedPnl(c.remainingPositions[i],
                          MarkOf(c.spreads, c.remainingPositions[i].asset))])]

\* Step 5: what the decision comes to
AiExecute(c) ==
    [c EXCEPT
        !.o = ExecuteOpen(c.decision, c.remainingPositions, c.cashAfterLoop, c.totalValue),
        !.toClose = SelectSeq(c.remainingPositions, LAMBDA r : r.asset = c.decision.asset)]

\* AiExecuteClose falling back to the first remaining position
AiExecuteClose_AnyPosition(c) ==
    [c EXCEPT !.closed =
        IF c.decision.action = "close" /\ c.toClose # << >>
        THEN << closePosition(c.toClose[1], c.spreads, c.now) >>
        ELSE IF c.decision.action = "close" /\ c.remainingPositions # << >>
        THEN << closePosition(c.remainingPositions[1], c.spreads, c.now) >>
        ELSE << >>]

\* Step 5, close: closePosition of the position found
AiExecuteClose(c) ==
    [c EXCEPT !.closed =
        IF c.decision.action = "close" /\ c.toClose # << >>
        THEN << closePosition(c.toClose[1], c.spreads, c.now) >>
        ELSE << >>]

\* the row of position k once the call is over
AiStoredPosition(c, k) ==
    LET at == { i \in 1..Len(c.funded) : c.funded[i].id = k }
        sl == { j \in 1..Len(c.closedRows) : c.closedRows[j].row.id = k }
    IN  IF at = {} THEN c.positions[k]
        ELSE IF sl # {} THEN c.closedRows[CHOOSE j \in sl : TRUE].row
        ELSE IF c.closed # << >> /\ c.closed[1].row.id = k THEN c.closed[1].row
        ELSE c.funded[CHOOSE i \in at : TRUE]

\* the row inserted for a new position
AiNewPosition(c) ==
    [ id |-> Len(c.positions) + 1, trader_id |-> c.t.id, asset |-> c.o.asset,
      direction |-> c.o.side, size_usd |-> c.o.size,
      entry_rate_8h |-> IF HasSpread(c.spreads, c.o.asset)
                        THEN SpreadOf(c.spreads, c.o.asset).rate8h ELSE 0,
      entry_price_approx |-> MarkOf(c.spreads, c.o.asset),
      funding_collected |-> 0, fees_paid |-> c.o.tradingFee,
      last_funding_at |-> c.now, is_open |-> TRUE, opened_at |-> c.now,
      pnl |-> 0, closed_at |-> NoTime ]

\* Step 5 and the rest: the tables and the cash the call leaves, the decision it logs
AiFinish(c) ==
    LET isOpen == c.decision.action \in {"open_long", "open_short"}
        opens == isOpen /\ c.o.open
        closes == c.closed # << >>
        action == IF isOpen THEN (IF opens THEN c.decision.action ELSE "hold")
                  ELSE IF c.decision.action = "close"
                  THEN (IF closes THEN "close" ELSE "hold")
                  ELSE c.decision.action
        reasoning == IF isOpen THEN c.o.reasoning
                     ELSE IF c.decision.action = "close" /\ ~closes THEN "no open position"
                     ELSE Cfg(c.decision, "reasoning", "llm")
        cashBalance == IF opens THEN c.cashAfterLoop - (c.o.size + c.o.tradingFee)
                       ELSE IF closes THEN c.cashAfterLoop + c.closed[1].cashReturn
                       ELSE c.cashAfterLoop
    IN  [ positions |-> [k \in 1..Len(c.positions) |-> AiStoredPosition(c, k)]
                            \o (IF opens THEN << AiNewPosition(c) >> ELSE << >>),
          decisions |-> c.decisions
                \o [j \in 1..Len(c.closedRows) |->
                        AiDecisionRow(c.t.id, "close", c.closedRows[j].row.asset,
                                      c.closedRows[j].row.size_usd, "STOP LOSS")]
                \o << AiDecisionRow(c.t.id, action, c.decision.asset, c.decision.size_usd,
                                    reasoning) >>,
          cash_balance |-> cashBalance,
          call |-> [ threw |-> FALSE, done |-> TRUE, now |-> c.now, spreads |-> c.spreads,
                     loaded |-> c.openPositions,
                     stopLossClosedIds |->
                         [j \in 1..Len(c.closedRows) |-> c.closedRows[j].row.id],
                     shown |-> [i \in 1..Len(c.remainingPositions) |->
                                   c.remainingPositions[i].id],
                     decision |-> c.decision, action |-> action,
                     openedId |-> IF opens THEN Len(c.positions) + 1 ELSE NoId,
                     closedId |-> IF closes THEN c.closed[1].row.id ELSE NoId,
                     decisionsAtLoad |-> Len(c.decisions),
                     cashAtLoad |-> c.t.cash_balance,
                     cashBalance |-> cashBalance, totalValue |-> c.totalValue ] ]

\* runAiTraderCycle(traderName) from the loaded trader on
RunAiTrader(t, spreads, now, positions, decisions, decision) ==
    AiFinish(AiExecuteClose(AiExecute(AiTotalValue(AiRemaining(AiStopLossClose(AiStopLoss(
        AiCollectFunding(AiFundingEarned(
            AiLoad(t, spreads, now, positions, decisions, decision))))))))))

\* POST /api/ai/run/:name -> runAiTraderCycle(name); decision is what callLLM
\* returns, fresh what aggregateRates() returns should the cache have expired
runAiTraderCycle(traderName, fault) ==
    /\ fault.op # "none" => storeErrors < MaxStoreErrors
    /\ Len(ai_decisions) < MaxAiDecisions
    /\ LET tErr == fault.op = "select_trader"
           found == SelectSeq(ai_traders, LAMBDA r : r.name = traderName /\ r.is_active)
           hit == CacheFresh(cachedAt, clock)
       IN  IF tErr \/ found = << >>
           THEN /\ ai' = [NoAiCall EXCEPT !.threw = TRUE]
                /\ storeErrors' = IF tErr THEN storeErrors + 1 ELSE storeErrors
                /\ UNCHANGED << cached, cachedAt, ai_traders, ai_positions, ai_decisions >>
           ELSE \E decision \in Decisions,
                   spreads \in (IF hit THEN {cached} ELSE Aggregates) :
                LET t == found[1]
                    r == RunAiTrader(t, spreads, clock, ai_positions, ai_decisions, decision)
                IN  /\ cached' = spreads
                    /\ cachedAt' = IF hit THEN cachedAt ELSE clock
                    /\ ai_positions' = r.positions
                    /\ ai_decisions' = r.decisions
                    /\ ai_traders' = [k \in 1..Len(ai_traders) |->
                           IF ai_traders[k].id = t.id
                           THEN [ai_traders[k] EXCEPT !.cash_balance = r.cash_balance]
                           ELSE ai_traders[k]]
                    /\ ai' = r.call
                    /\ UNCHANGED storeErrors
    /\ UNCHANGED << fanOutVars, llm, http, analytics, clock, paperVars, loopVars >>

-----------------------------------------------------------------------------
(* callLLM: the request to the LLM endpoint, its timeout and its one retry *)

LLM_TIMEOUT_MS == 45000
LLM_ATTEMPTS == 2       \* `attempt <= 2`

\* message.content of a response: nothing, text without a JSON object, text whose
\* first {...} does not parse, or text whose first {...} parses to the object `json`
NoJson == [ action |-> "", asset |-> NoAsset, size_usd |-> NoSize, reasoning |-> "" ]
Content(text, json) == [ text |-> text, json |-> json ]
Empty == Content("empty", NoJson)
Prose == Content("prose", NoJson)
Broken == Content("broken", NoJson)
Json(action, asset, size_usd) ==
    Content("json", [ action |-> action, asset |-> asset, size_usd |-> size_usd,
                      reasoning |-> "llm" ])

\* what the endpoint does with one request: after ms it answers with a status and a
\* body, or the fetch fails ("network_error")
Reply(ms, status, content) == [ ms |-> ms, status |-> status, content |-> content ]

Hold(reasoning) ==
    [ action |-> "hold", asset |-> NoAsset, size_usd |-> NoSize, reasoning |-> reasoning ]

\* `LLM timed out after ${LLM_TIMEOUT_MS / 1000}s -- holding` (the dash is U+2014 in
\* the code)
TimedOutReasoning ==
    "LLM timed out after " \o ToString(LLM_TIMEOUT_MS \div 1000) \o "s -- holding"

\* callLLMWithTimeout(trader, systemPrompt, userMessage, timeoutMs): the timer aborts
\* the fetch at timeoutMs; a response that is not ok counts as empty content
callLLMWithTimeout(apiKey, reply, timeoutMs) ==
    IF ~apiKey
    THEN [ content |-> Empty, timedOut |-> FALSE, threw |-> FALSE, requested |-> FALSE ]
    ELSE IF reply.ms >= timeoutMs
    THEN [ content |-> Empty, timedOut |-> TRUE, threw |-> FALSE, requested |-> TRUE ]
    ELSE IF reply.status = "network_error"
    THEN [ content |-> Empty, timedOut |-> FALSE, threw |-> TRUE, requested |-> TRUE ]
    ELSE IF reply.status # "ok"
    THEN [ content |-> Empty, timedOut |-> FALSE, threw |-> FALSE, requested |-> TRUE ]
    ELSE [ content |-> reply.content, timedOut |-> FALSE, threw |-> FALSE,
           requested |-> TRUE ]

ValidActions == { "open_long", "open_short", "close", "hold" }

\* Attempt that goes round again after every answer that is no decision
Attempt_RetryOnAnyFailure(apiKey, reply, attempt) ==
    LET r == callLLMWithTimeout(apiKey, reply, LLM_TIMEOUT_MS)
        parseThrows == ~r.timedOut /\ ~r.threw /\ r.content.text = "broken"
        caught == r.threw \/ parseThrows
        request == [ ms |-> Min(reply.ms, LLM_TIMEOUT_MS), timedOut |-> r.timedOut,
                     threw |-> caught, reply |-> reply ]
        parsed == /\ ~r.timedOut /\ ~caught /\ r.content.text = "json"
                  /\ r.content.json.action \in ValidActions
    IN  [ requests |-> IF r.requested THEN << request >> ELSE << >>,
          again |-> ~parsed /\ attempt < LLM_ATTEMPTS,
          decision |->
              IF r.timedOut THEN Hold(TimedOutReasoning)
              ELSE IF caught THEN Hold("LLM error")
              ELSE IF r.content.text = "empty" THEN Hold("LLM returned empty response")
              ELSE IF r.content.text = "prose" THEN Hold("Failed to parse LLM response")
              ELSE IF r.content.json.action \notin ValidActions
              THEN Hold("Invalid action from LLM")
              ELSE r.content.json ]

\* one pass of the loop of callLLM: it returns a decision, or it goes round again
\* (`continue`) after a timeout or after an exception, JSON.parse's included
Attempt(apiKey, reply, attempt) ==
    LET r == callLLMWithTimeout(apiKey, reply, LLM_TIMEOUT_MS)
        parseThrows == ~r.timedOut /\ ~r.threw /\ r.content.text = "broken"
        caught == r.threw \/ parseThrows
        request == [ ms |-> Min(reply.ms, LLM_TIMEOUT_MS), timedOut |-> r.timedOut,
                     threw |-> caught, reply |-> reply ]
    IN  [ requests |-> IF r.requested THEN << request >> ELSE << >>,
          again |-> (r.timedOut \/ caught) /\ attempt < LLM_ATTEMPTS,
          decision |->
              IF r.timedOut THEN Hold(TimedOutReasoning)
              ELSE IF caught THEN Hold("LLM error")
              ELSE IF r.content.text = "empty" THEN Hold("LLM returned empty response")
              ELSE IF r.content.text = "prose" THEN Hold("Failed to parse LLM response")
              ELSE IF r.content.json.action \notin ValidActions
              THEN Hold("Invalid action from LLM")
              ELSE r.content.json ]

RECURSIVE Loop(_, _, _, _)
\* for (let attempt = 1; attempt <= 2; attempt++) { ... }
Loop(apiKey, replies, attempt, requests) ==
    IF attempt > LLM_ATTEMPTS
    THEN [ decision |-> Hold("LLM failed after retries"), requests |-> requests ]
    ELSE LET a == Attempt(apiKey, replies[attempt], attempt)
         IN  IF a.again THEN Loop(apiKey, replies, attempt + 1, requests \o a.requests)
             ELSE [ decision |-> a.decision, requests |-> requests \o a.requests ]

\* callLLM(trader, systemPrompt, userMessage); replies[k] is what the endpoint does
\* with request k
callLLM(apiKey, replies) ==
    IF ~apiKey THEN [ decision |-> Hold("API key not configured"), requests |-> << >> ]
    ELSE Loop(apiKey, replies, 1, << >>)

\* no callLLM call yet
NoLlmCall ==
    [ called |-> FALSE, apiKey |-> TRUE, requests |-> << >>, decision |-> Hold("") ]

\* an HTTP response: the route and its parameter, whether the store client was there,
\* the status and the `error` of the body ("" when the body is the resource), and
\* whether the handler changed a row of the store
Response(route, param, db, status, error, wrote) ==
    [ route |-> route, param |-> param, db |-> db, status |-> status, error |-> error,
      wrote |-> wrote ]

\* no request answered yet
NoResponse == Response("", "", TRUE, 0, "", FALSE)

(* computeSharpeAndDrawdown(): Sharpe ratio and max drawdown of a series of values *)

\* a number | null
NoNumber == [null |-> TRUE, value |-> 0]
Number(x) == [null |-> FALSE, value |-> x]

\* the values whose square is a up to what is cut off: Math.sqrt, cut to an integer
RECURSIVE SqrtIn(_, _, _)
SqrtIn(a, lo, hi) ==
    IF lo = hi THEN lo
    ELSE LET mid == (lo + hi + 1) \div 2
         IN  IF mid * mid <= a THEN SqrtIn(a, mid, hi) ELSE SqrtIn(a, lo, mid - 1)
Sqrt(a) == SqrtIn(a, 0, 40000)

\* x / y rounded to the nearest integer, y > 0: toFixed on a scaled value
RoundDiv(x, y) ==
    IF x >= 0 THEN (2 * x + y) \div (2 * y) ELSE 0 - ((2 * (0 - x) + y) \div (2 * y))

HOURS_PER_YEAR == 8760
ReturnDen == 6          \* a common denominator of the returns: every base value divides it
SharpeScale == 100      \* the Sharpe ratio in hundredths
DrawdownScale == 100000 \* the max drawdown in units of 0.00001: toFixed(5)

\* the hourly returns in units of 1/ReturnDen: one for every value whose predecessor
\* is > 0
RECURSIVE Returns(_, _)
Returns(values, i) ==
    IF i > Len(values) THEN << >>
    ELSE (IF values[i - 1] > 0
          THEN << (values[i] - values[i - 1]) * (ReturnDen \div values[i - 1]) >>
          ELSE << >>) \o Returns(values, i + 1)

\* the running peak and the largest (peak - v) / peak, in units of 1/DrawdownScale
\* rounded, over the values from i on
RECURSIVE MaxDD(_, _, _, _)
MaxDD(values, i, peak, maxDD) ==
    IF i > Len(values) THEN maxDD
    ELSE LET v == values[i]
             p == IF v > peak THEN v ELSE peak
             dd == IF p > 0 THEN RoundDiv((p - v) * DrawdownScale, p) ELSE 0
         IN  MaxDD(values, i + 1, p, IF dd > maxDD THEN dd ELSE maxDD)

\* computeSharpeAndDrawdown(values). With n returns R_i of sum S and
\* Q = sum (n R_i - S)^2, the variance is Q / (n n (n - 1)) and the mean S / n, so
\* std > 0 iff Q > 0 and mean / std * sqrt(8760) = S * sqrt(8760 (n - 1) / Q), the
\* common denominator cancelling; the root is taken to hundredths.
computeSharpeAndDrawdown(values) ==
    IF Len(values) < 2 THEN [sharpe |-> NoNumber, max_drawdown |-> NoNumber]
    ELSE LET returns == Returns(values, 2)
             n == Len(returns)
             S == SumSeq(returns)
             Q == SumSeq([k \in 1..n |-> (n * returns[k] - S) * (n * returns[k] - S)])
             maxDD == MaxDD(values, 1, values[1], 0)
         IN  IF n < 2 THEN [sharpe |-> NoNumber, max_drawdown |-> NoNumber]
             ELSE [ sharpe |-> IF Q > 0
                               THEN Number(S * Sqrt((HOURS_PER_YEAR * (n - 1)
                                                      * SharpeScale * SharpeScale) \div Q))
                               ELSE NoNumber,
                    max_drawdown |-> Number(IF maxDD > 0 THEN 0 - maxDD ELSE 0) ]

\* no computeSharpeAndDrawdown call yet, the snapshot values being `values`
Snapshots(values) ==
    [ called |-> FALSE, values |-> values, result |-> [sharpe |-> NoNumber, max_drawdown |-> NoNumber] ]
NoAnalytics == Snapshots(<< >>)

(* aggregateRates(): the fan-out over the venue adapters and the spreads *)

Venues == << "hyperliquid", "binance", "bybit", "okx" >>
CexVenues == << "binance", "bybit", "okx" >>
VenueSet == { Venues[k] : k \in 1..Len(Venues) }

\* null, where the source has a FundingRate or null
Null == [null |-> TRUE]

\* a FundingRate: the venue, the asset and the rate per 8 h in ten-thousandths
Rate(exchange, asset, rate8h) == [exchange |-> exchange, asset |-> asset, rate8h |-> rate8h]

\* a promise of Promise.allSettled: pending, fulfilled with a list, or rejected
Pending == [status |-> "pending", value |-> << >>]
Rejected == [status |-> "rejected", value |-> << >>]
FulfilledWith(list) == [status |-> "fulfilled", value |-> list]

\* what fetchHyperliquid() can resolve with
HlLists ==
    { << >>,
      << Rate("hyperliquid", "BTC", 60) >>,
      << Rate("hyperliquid", "ETH", 0 - 10), Rate("hyperliquid", "BTC", 60) >> }

\* what the adapter of a CEX can resolve with
CexRates == { 1, 50, 0 - 50 }
CexLists(v) ==
    { << >>, << Rate(v, "ETH", 20), Rate(v, "BTC", 0 - 50) >> }
        \cup { << Rate(v, "BTC", r) >> : r \in CexRates }

OutcomesOf(v) ==
    { Rejected } \cup
    { FulfilledWith(l) : l \in (IF v = "hyperliquid" THEN HlLists ELSE CexLists(v)) }

\* `xResult.status === 'fulfilled' ? xResult.value : null`, null as ok = FALSE
ValueOf(outcome) ==
    [ok |-> outcome.status = "fulfilled", list |-> outcome.value]

\* index(rates).get(asset) ?? null: an empty map for null, the last rate of the asset
IndexGet(rates, asset) ==
    LET at == { k \in 1..Len(rates.list) : rates.list[k].asset = asset }
    IN  IF ~rates.ok \/ at = {} THEN Null
        ELSE rates.list[CHOOSE k \in at : \A l \in at : l <= k]

RECURSIVE Reduce_Highest(_, _, _)
\* the reduce keeping the highest rate
Reduce_Highest(cexRates, i, a) ==
    IF i > Len(cexRates) THEN a
    ELSE Reduce_Highest(cexRates, i + 1,
                        IF cexRates[i].rate > a.rate THEN cexRates[i] ELSE a)

RECURSIVE Reduce(_, _, _)
\* cexRates.reduce((a, b) => (Math.abs(b.rate) > Math.abs(a.rate) ? b : a))
Reduce(cexRates, i, a) ==
    IF i > Len(cexRates) THEN a
    ELSE Reduce(cexRates, i + 1,
                IF Abs(cexRates[i].rate) > Abs(a.rate) THEN cexRates[i] ELSE a)

\* the spread of one primary-venue rate
BuildSpread(hl, binMap, bybitMap, okxMap) ==
    LET bin == IndexGet(binMap, hl.asset)
        byb == IndexGet(bybitMap, hl.asset)
        okx == IndexGet(okxMap, hl.asset)
        cexRates ==
            (IF bin # Null THEN << [name |-> "binance", rate |-> bin.rate8h] >> ELSE << >>)
            \o (IF byb # Null THEN << [name |-> "bybit", rate |-> byb.rate8h] >> ELSE << >>)
            \o (IF okx # Null THEN << [name |-> "okx", rate |-> okx.rate8h] >> ELSE << >>)
        best == IF Len(cexRates) > 0 THEN Reduce(cexRates, 2, cexRates[1])
                ELSE [name |-> "none", rate |-> 0]
    IN  [ asset |-> hl.asset, hl |-> hl, binance |-> bin, bybit |-> byb, okx |-> okx,
          maxSpread |-> hl.rate8h - best.rate, bestCex |-> best.name ]

\* a failed adapter of any venue taken for a failed primary adapter
PrimaryFailed_AnyVenue(s) ==
    \E v \in VenueSet : ~ValueOf(s[v]).ok

\* `if (!hlRates)`
PrimaryFailed(s) ==
    ~ValueOf(s["hyperliquid"]).ok

\* aggregateRates() once it has the outcomes of the four adapters
aggregateRates(s) ==
    LET hlRates == ValueOf(s["hyperliquid"])
        binanceRates == ValueOf(s["binance"])
        bybitRates == ValueOf(s["bybit"])
        okxRates == ValueOf(s["okx"])
    IN  IF PrimaryFailed(s)
        THEN [spreads |-> << >>, allRates |-> << >>]
        ELSE [ spreads |->
                   SortSpreads([k \in 1..Len(hlRates.list) |->
                       BuildSpread(hlRates.list[k], binanceRates, bybitRates, okxRates)]),
               allRates |->
                   hlRates.list
                   \o (IF binanceRates.ok THEN binanceRates.list ELSE << >>)
                   \o (IF bybitRates.ok THEN bybitRates.list ELSE << >>)
                   \o (IF okxRates.ok THEN okxRates.list ELSE << >>) ]

\* the await of Promise.allSettled resumed as soon as the primary adapter settled
AllSettled_PrimaryOnly(s) ==
    s["hyperliquid"].status # "pending"

\* Promise.allSettled: every promise is fulfilled or rejected
AllSettled(s) ==
    \A v \in VenueSet : s[v].status # "pending"

NoResult == [returned |-> FALSE, result |-> [spreads |-> << >>, allRates |-> << >>],
             unsettled |-> {}]

\* aggregateRates() has been called: its four adapters are pending
FanOutIdle ==
    /\ settled = [v \in VenueSet |-> Pending]
    /\ aggregated = NoResult

\* no handler is suspended, the poll timer is due, nothing was written or read yet
LoopStart(polls, gets, runs) ==
    /\ tasks = {}
    /\ pending = [poll |-> polls, get |-> gets, ai |-> runs]
    /\ nextPollAt = 0
    /\ cacheWrites = << >>
    /\ getReturns = << >>

\* the handlers run one at a time, each to its end: none is ever suspended
LoopIdle == LoopStart(0, 0, 0)

-----------------------------------------------------------------------------
\* The store holds either one active portfolio and no trader, or one trader and a
\* portfolio that is switched off
InitStore ==
    /\ clock = 0
    /\ cached = << >>
    /\ cachedAt = NoTime
    /\ \E seed \in Seeds, paper \in BOOLEAN :
          /\ paper_portfolios = [id \in {PortfolioId} |->
                [ id |-> id, strategy_name |-> seed.strategy_name,
                  strategy_config |-> seed.strategy_config,
                  cash_balance |-> InitialBalance, is_active |-> paper ]]
          /\ ~paper => seed.strategy_name = "aggressive"
          /\ ai_traders =
                IF paper THEN << >>
                ELSE << [ id |-> TraderId, name |-> TraderName,
                          cash_balance |-> Usd(INITIAL_BALANCE), is_active |-> TRUE ] >>
    /\ paper_positions = << >>
    /\ paper_transactions = << >>
    /\ pp = NoCall
    /\ cycle = NoCycle
    /\ storeErrors = 0
    /\ ai_positions = << >>
    /\ ai_decisions = << >>
    /\ ai = NoAiCall
    /\ llm = NoLlmCall
    /\ http = NoResponse
    /\ analytics = NoAnalytics
    /\ FanOutIdle

Init == InitStore /\ LoopIdle

PaperFaults == { x \in Faults : x.op # "select_trader" }
AiFaults == { x \in Faults : x.op \in {"none", "select_trader"} }

Next ==
    \/ \E d \in {TickMs} : Tick(d)
    \/ \E result \in Aggregates, fault \in PaperFaults : poll(result, fault)
    \/ \E traderName \in TraderNames, fault \in AiFaults :
          runAiTraderCycle(traderName, fault)

Spec == Init /\ [][Next]_vars

-----------------------------------------------------------------------------
(* A store with two portfolios *)

\* the rows a portfolio can have: a strategy with its config, or a row whose
\* strategy_config is null
FleetSeeds ==
    { [strategy_name |-> "aggressive", strategy_config |-> NoConfig],
      [strategy_name |-> "aggressive", strategy_config |-> [max_positions |-> 1]],
      [strategy_name |-> "negative_fade", strategy_config |-> [stop_loss_pct |-> 1500]] }

FleetIds == { PortfolioIds[k] : k \in 1..Len(PortfolioIds) }

InitFleet ==
    /\ clock = 0
    /\ cached = << >>
    /\ cachedAt = NoTime
    /\ \E seed \in [FleetIds -> FleetSeeds], on \in [FleetIds -> BOOLEAN] :
          paper_portfolios = [id \in FleetIds |->
              [ id |-> id, strategy_name |-> seed[id].strategy_name,
                strategy_config |-> seed[id].strategy_config,
                cash_balance |-> InitialBalance, is_active |-> on[id] ]]
    /\ paper_positions = << >>
    /\ paper_transactions = << >>
    /\ pp = NoCall
    /\ cycle = NoCycle
    /\ storeErrors = 0
    /\ ai_traders = << >>
    /\ ai_positions = << >>
    /\ ai_decisions = << >>
    /\ ai = NoAiCall
    /\ llm = NoLlmCall
    /\ http = NoResponse
    /\ analytics = NoAnalytics
    /\ FanOutIdle
    /\ LoopIdle

FleetFaults == { x \in Faults : x.op \in {"none", "select_portfolios"} }

NextFleet ==
    \/ \E d \in {TickMs} : Tick(d)
    \/ \E result \in Aggregates, fault \in FleetFaults : poll(result, fault)

SpecFleet == InitFleet /\ [][NextFleet]_vars

-----------------------------------------------------------------------------
(* The event loop: poll(), the HTTP handlers and the cycles, each suspended at its *)
(* awaits, so that the steps of different handlers interleave                    *)

POLL_INTERVAL_MS == 30000

\* time passes in steps of a quarter minute
StepMs == CACHE_TTL_MS \div 2

\* what aggregateRates() and callLLM() can return here
LoopAggregates ==
    { SortSpreads(b \o e) :
        b \in { << Spread("BTC", Quote(400, 100, 450, 2)) >>, << >> },
        e \in ListingsOf("ETH") }
LoopDecisions == { d \in Decisions : d.action \in {"hold", "open_long"} }

\* a suspended handler: poll ("aggregate"), runPaperTradingCycle ("client", "fetch",
\* "portfolios", "process"), an HTTP handler inside getCachedRates ("fetch"),
\* runAiTraderCycle ("trader", "rates", "fetch", "llm"); n tells the handlers of a kind
\* apart, counting down, and a paper cycle keeps the number of its poll
Task(kind, n, pc) ==
    [ kind |-> kind, n |-> n, pc |-> pc, after |-> "", updateSeq |-> 0,
      calledAt |-> 0, calledAfter |-> 0, spreads |-> << >>, readSeq |-> 0,
      portfolios |-> << >>, name |-> "", trader |-> << >>, now |-> 0 ]

\* task t replaced by its next state
Resume(t, next) == (tasks \ {t}) \cup {next}

\* one write of the cache: by updateCache ("update") or inside getCachedRates ("get")
CacheWrite(by, result, now) == [by |-> by, result |-> result, at |-> now]

\* getCachedRates() returning the entry the one before the latest write left
ReadHit_Older ==
    IF Len(cacheWrites) > 1
    THEN [result |-> cacheWrites[Len(cacheWrites) - 1].result, seq |-> Len(cacheWrites) - 1]
    ELSE [result |-> cached, seq |-> Len(cacheWrites)]

\* getCachedRates() on a fresh cache: `return cached`, the result of the latest write
ReadHit ==
    [result |-> cached, seq |-> Len(cacheWrites)]

\* one return of getCachedRates: when it was called and how many calls had returned
\* by then, when it returned, what, and the write that put the result into the cache
GetReturn(calledAt, calledAfter, result, seq, now) ==
    [ calledAt |-> calledAt, calledAfter |-> calledAfter, at |-> now, result |-> result,
      seq |-> seq ]

\* the clock moves on; the poll timer fires when it is due
Advance(d) ==
    /\ clock + d <= MaxLoopSteps * StepMs
    /\ pending.poll > 0 => clock + d <= nextPollAt
    /\ clock' = clock + d
    /\ UNCHANGED << fanOutVars, llm, http, analytics, cached, cachedAt, paperVars, storeErrors, aiVars, loopVars >>

\* PollFire for a loop that awaits each tick and ends on the first error
PollFire_StopsOnError ==
    /\ \A t \in tasks : t.pc # "logged"
    /\ pending.poll > 0
    /\ clock = nextPollAt
    /\ tasks' = tasks \cup { Task("poll", pending.poll, "aggregate") }
    /\ pending' = [pending EXCEPT !.poll = @ - 1]
    /\ nextPollAt' = clock + POLL_INTERVAL_MS
    /\ UNCHANGED << fanOutVars, llm, http, analytics, clock, cached, cachedAt, paperVars, storeErrors, aiVars,
                    cacheWrites, getReturns >>

\* poll() is called: at start and by setInterval(poll, 30_000); it awaits
\* aggregateRates()
PollFire ==
    /\ pending.poll > 0
    /\ clock = nextPollAt
    /\ tasks' = tasks \cup { Task("poll", pending.poll, "aggregate") }
    /\ pending' = [pending EXCEPT !.poll = @ - 1]
    /\ nextPollAt' = clock + POLL_INTERVAL_MS
    /\ UNCHANGED << fanOutVars, llm, http, analytics, clock, cached, cachedAt, paperVars, storeErrors, aiVars,
                    cacheWrites, getReturns >>

\* poll() resumes with the aggregate: updateCache(result), then runPaperTradingCycle()
\* is called and not awaited; it suspends in getServiceClient()
PollAggregated(t, result) ==
    /\ t.kind = "poll"
    /\ cached' = result
    /\ cachedAt' = clock
    /\ cacheWrites' = Append(cacheWrites, CacheWrite("update", result, clock))
    /\ tasks' = Resume(t, [Task("paper", t.n, "client") EXCEPT
                              !.updateSeq = Len(cacheWrites) + 1])
    /\ UNCHANGED << fanOutVars, llm, http, analytics, clock, paperVars, storeErrors, aiVars, pending, nextPollAt,
                    getReturns >>

\* handler t calls getCachedRates(): a fresh cache is returned at once, otherwise the
\* call suspends in aggregateRates()
CallGetCachedRates(t, after) ==
    /\ IF CacheFresh(cachedAt, clock)
       THEN /\ tasks' = Resume(t, [t EXCEPT !.pc = after,
                                            !.spreads = ReadHit.result,
                                            !.readSeq = ReadHit.seq])
            /\ getReturns' = Append(getReturns,
                   GetReturn(clock, Len(getReturns), ReadHit.result, ReadHit.seq, clock))
       ELSE /\ tasks' = Resume(t, [t EXCEPT !.pc = "fetch", !.after = after,
                                            !.calledAt = clock,
                                            !.calledAfter = Len(getReturns)])
            /\ UNCHANGED getReturns
    /\ UNCHANGED << cached, cachedAt, cacheWrites >>

\* getCachedRates() resumes with the aggregate it fetched: it writes the cache and
\* returns the aggregate to its caller
GetCachedRatesResume(t, result) ==
    /\ t.pc = "fetch"
    /\ cached' = result
    /\ cachedAt' = clock
    /\ cacheWrites' = Append(cacheWrites, CacheWrite("get", result, clock))
    /\ getReturns' = Append(getReturns,
           GetReturn(t.calledAt, t.calledAfter, result, Len(cacheWrites) + 1, clock))
    /\ tasks' = IF t.kind = "get" THEN tasks \ {t}
                ELSE Resume(t, [t EXCEPT !.pc = t.after, !.spreads = result,
                                         !.readSeq = Len(cacheWrites) + 1,
                                         !.after = "", !.calledAt = 0,
                                         !.calledAfter = 0])
    /\ UNCHANGED << fanOutVars, llm, http, analytics, clock, paperVars, storeErrors, aiVars, pending, nextPollAt >>

\* an HTTP handler (GET /api/rates and the like) calls getCachedRates()
HttpGetRates ==
    /\ pending.get > 0
    /\ pending' = [pending EXCEPT !.get = @ - 1]
    /\ IF CacheFresh(cachedAt, clock)
       THEN /\ getReturns' = Append(getReturns,
                   GetReturn(clock, Len(getReturns), ReadHit.result, ReadHit.seq, clock))
            /\ UNCHANGED tasks
       ELSE /\ tasks' = tasks \cup { [Task("get", pending.get, "fetch") EXCEPT
                                         !.calledAt = clock,
                                         !.calledAfter = Len(getReturns)] }
            /\ UNCHANGED getReturns
    /\ UNCHANGED << fanOutVars, llm, http, analytics, clock, cached, cachedAt, paperVars, storeErrors, aiVars, nextPollAt,
                    cacheWrites >>

\* runPaperTradingCycle() has its client and calls getCachedRates()
PaperGetRates(t) ==
    /\ t.kind = "paper" /\ t.pc = "client"
    /\ CallGetCachedRates(t, "portfolios")
    /\ UNCHANGED << fanOutVars, llm, http, analytics, clock, paperVars, storeErrors, aiVars, pending, nextPollAt >>

\* runPaperTradingCycle() returns on an empty aggregate, else loads the active
\* portfolios and returns when there is none
PaperLoadPortfolios(t) ==
    /\ t.kind = "paper" /\ t.pc = "portfolios"
    /\ LET stored == SelectSeq(PortfolioIds, LAMBDA id : id \in DOMAIN paper_portfolios)
           portfolios == SelectSeq([k \in 1..Len(stored) |-> paper_portfolios[stored[k]]],
                                   LAMBDA r : r.is_active)
           active == { portfolios[k].id : k \in 1..Len(portfolios) }
       IN  IF Len(t.spreads) = 0 \/ portfolios = << >>
           THEN /\ tasks' = tasks \ {t}
                /\ pp' = NoCall
                /\ cycle' = [NoCycle EXCEPT !.called = TRUE, !.active = active]
           ELSE /\ tasks' = Resume(t, [t EXCEPT !.pc = "process",
                                                !.portfolios = portfolios])
                /\ UNCHANGED << pp, cycle >>
    /\ UNCHANGED << fanOutVars, llm, http, analytics, clock, cached, cachedAt, paper_portfolios, paper_positions,
                    paper_transactions, storeErrors, aiVars, pending, nextPollAt,
                    cacheWrites, getReturns >>

\* runPaperTradingCycle() runs processPortfolio for the portfolios it loaded, against
\* the aggregate it read
PaperProcess(t) ==
    /\ t.kind = "paper" /\ t.pc = "process"
    /\ LET s == RunPortfolios(t.portfolios, 1,
                    LoopState(paper_positions, paper_transactions, paper_portfolios),
                    t.spreads, clock, NoFault)
       IN  /\ paper_positions' = s.positions
           /\ paper_transactions' = s.transactions
           /\ paper_portfolios' = s.portfolios
           /\ pp' = s.call
           /\ cycle' = [ called |-> TRUE, ran |-> TRUE,
                         active |-> { t.portfolios[k].id : k \in 1..Len(t.portfolios) },
                         processed |-> s.processed ]
    /\ tasks' = tasks \ {t}
    /\ UNCHANGED << fanOutVars, llm, http, analytics, clock, cached, cachedAt, storeErrors, aiVars, pending, nextPollAt,
                    cacheWrites, getReturns >>

\* POST /api/ai/run/:name calls runAiTraderCycle(name)
AiRunStart(traderName) ==
    /\ pending.ai > 0
    /\ pending' = [pending EXCEPT !.ai = @ - 1]
    /\ tasks' = tasks \cup { [Task("ai", pending.ai, "trader") EXCEPT
                                 !.name = traderName] }
    /\ UNCHANGED << fanOutVars, llm, http, analytics, clock, cached, cachedAt, paperVars, storeErrors, aiVars, nextPollAt,
                    cacheWrites, getReturns >>

\* runAiTraderCycle() loads the trader, throws when there is none, loads its positions
\* and takes `now`
AiLoadTrader(t) ==
    /\ t.kind = "ai" /\ t.pc = "trader"
    /\ LET found == SelectSeq(ai_traders, LAMBDA r : r.name = t.name /\ r.is_active)
       IN  IF found = << >>
           THEN /\ tasks' = tasks \ {t}
                /\ ai' = [NoAiCall EXCEPT !.threw = TRUE]
           ELSE /\ tasks' = Resume(t, [t EXCEPT !.pc = "rates", !.trader = found[1],
                                                !.now = clock])
                /\ UNCHANGED ai
    /\ UNCHANGED << fanOutVars, llm, http, analytics, clock, cached, cachedAt, paperVars, storeErrors, ai_traders,
                    ai_positions, ai_decisions, pending, nextPollAt, cacheWrites,
                    getReturns >>

\* runAiTraderCycle() calls getCachedRates()
AiGetRates(t) ==
    /\ t.kind = "ai" /\ t.pc = "rates"
    /\ CallGetCachedRates(t, "llm")
    /\ UNCHANGED << fanOutVars, llm, http, analytics, clock, paperVars, storeErrors, aiVars, pending, nextPollAt >>

\* runAiTraderCycle() from the funding loop to its end, with what callLLM() returned
AiDecide(t, decision) ==
    /\ t.kind = "ai" /\ t.pc = "llm"
    /\ LET r == RunAiTrader(t.trader, t.spreads, t.now, ai_positions, ai_decisions,
                            decision)
       IN  /\ ai_positions' = r.positions
           /\ ai_decisions' = r.decisions
           /\ ai_traders' = [k \in 1..Len(ai_traders) |->
                  IF ai_traders[k].id = t.trader.id
                  THEN [ai_traders[k] EXCEPT !.cash_balance = r.cash_balance]
                  ELSE ai_traders[k]]
           /\ ai' = r.call
    /\ tasks' = tasks \ {t}
    /\ UNCHANGED << fanOutVars, llm, http, analytics, clock, cached, cachedAt, paperVars, storeErrors, pending, nextPollAt,
                    cacheWrites, getReturns >>

\* the poll loop and the HTTP handlers that read the cache, over the store with the
\* aggressive portfolio
InitCache ==
    /\ InitStore
    /\ paper_portfolios[PortfolioId].strategy_name = "aggressive"
    /\ paper_portfolios[PortfolioId].is_active
    /\ \/ LoopStart(FewPolls, MaxGets, 0)
       \/ LoopStart(MaxPolls, FewGets, 0)

NextCache ==
    \/ \E d \in {StepMs} : Advance(d)
    \/ PollFire
    \/ HttpGetRates
    \/ \E t \in tasks :
          \/ \E result \in LoopAggregates : PollAggregated(t, result)
          \/ \E result \in LoopAggregates : GetCachedRatesResume(t, result)
          \/ PaperGetRates(t)
          \/ PaperLoadPortfolios(t)
          \/ PaperProcess(t)

SpecCache == InitCache /\ [][NextCache]_vars

\* the poll loop, or the AI run requests, over the store with the portfolio or the
\* store with the trader
InitCycles ==
    /\ InitStore
    /\ paper_portfolios[PortfolioId].strategy_name = "aggressive"
    /\ \/ LoopStart(MaxPolls, 0, 0)
       \/ LoopStart(0, 0, MaxAiRuns)

NextCycles ==
    \/ \E d \in {StepMs} : Advance(d)
    \/ PollFire
    \/ \E traderName \in {TraderName} : AiRunStart(traderName)
    \/ \E t \in tasks :
          \/ \E result \in LoopAggregates : PollAggregated(t, result)
          \/ \E result \in LoopAggregates : GetCachedRatesResume(t, result)
          \/ PaperGetRates(t)
          \/ PaperLoadPortfolios(t)
          \/ PaperProcess(t)
          \/ AiLoadTrader(t)
          \/ AiGetRates(t)
          \/ \E decision \in LoopDecisions : AiDecide(t, decision)

SpecCycles == InitCycles /\ [][NextCycles]_vars

-----------------------------------------------------------------------------
(* The poll loop with its failures *)

\* a task whose promise rejected, or whose error was caught: console.error logged it
Logged(t) == [t EXCEPT !.pc = "logged"]

\* poll(): aggregateRates() throws; the catch of poll() logs the error
PollAggregateThrows(t) ==
    /\ t.kind = "poll" /\ t.pc = "aggregate"
    /\ tasks' = Resume(t, Logged(t))
    /\ UNCHANGED << fanOutVars, llm, http, analytics, clock, cached, cachedAt, paperVars, storeErrors, aiVars,
                    pending, nextPollAt, cacheWrites, getReturns >>

\* poll() resumes with the aggregate: updateCache(result), then saveSnapshot() and
\* runPaperTradingCycle() are called, neither awaited, and poll() returns
PollResume(t, result) ==
    /\ t.kind = "poll" /\ t.pc = "aggregate"
    /\ cached' = result
    /\ cachedAt' = clock
    /\ cacheWrites' = Append(cacheWrites, CacheWrite("update", result, clock))
    /\ tasks' = (tasks \ {t}) \cup
                    { [Task("snapshot", t.n, "insert") EXCEPT
                          !.updateSeq = Len(cacheWrites) + 1],
                      [Task("paper", t.n, "client") EXCEPT
                          !.updateSeq = Len(cacheWrites) + 1] }
    /\ UNCHANGED << fanOutVars, llm, http, analytics, clock, paperVars, storeErrors, aiVars, pending, nextPollAt,
                    getReturns >>

\* saveSnapshot() settles: it resolves, or it rejects and the .catch() logs the error
SnapshotSettle(t, ok) ==
    /\ t.kind = "snapshot" /\ t.pc = "insert"
    /\ tasks' = IF ok THEN tasks \ {t} ELSE Resume(t, Logged(t))
    /\ UNCHANGED << fanOutVars, llm, http, analytics, clock, cached, cachedAt, paperVars, storeErrors, aiVars,
                    pending, nextPollAt, cacheWrites, getReturns >>

\* runPaperTradingCycle() rejects at one of its awaits outside the per-portfolio try:
\* the .catch() logs the error
PaperRejects(t) ==
    /\ t.kind = "paper" /\ t.pc \in {"client", "portfolios"}
    /\ tasks' = Resume(t, Logged(t))
    /\ UNCHANGED << fanOutVars, llm, http, analytics, clock, cached, cachedAt, paperVars, storeErrors, aiVars,
                    pending, nextPollAt, cacheWrites, getReturns >>

InitPoll ==
    /\ InitStore
    /\ paper_portfolios[PortfolioId].strategy_name = "aggressive"
    /\ paper_portfolios[PortfolioId].is_active
    /\ LoopStart(MaxPolls, 0, 0)

TimePasses == \E d \in {StepMs} : Advance(d)

NextPoll ==
    \/ TimePasses
    \/ PollFire
    \/ \E t \in tasks :
          \/ PollAggregateThrows(t)
          \/ \E result \in LoopAggregates : PollResume(t, result)
          \/ \E ok \in BOOLEAN : SnapshotSettle(t, ok)
          \/ PaperRejects(t)
          \/ \E result \in LoopAggregates : GetCachedRatesResume(t, result)
          \/ PaperGetRates(t)
          \/ PaperLoadPortfolios(t)
          \/ PaperProcess(t)

\* the clock runs and setInterval calls poll() when the interval is over, whatever
\* the handlers in flight do
SpecPoll == InitPoll /\ [][NextPoll]_vars /\ WF_vars(TimePasses) /\ WF_vars(PollFire)

(* The AI cycle with its LLM step *)

FastMs == 1000          \* an answer well inside the timeout
SlowMs == 60000         \* an answer that would come after the timeout

\* the decisions the LLM may send: well-formed ones, with sizes missing, above the
\* cap, below the minimum, zero and negative, and one with an action that is none
LlmJsons ==
    { Json("hold", NoAsset, NoSize),
      Json("open_long", "BTC", NoSize),
      Json("open_long", "BTC", Usd(5000)),
      Json("open_short", "ETH", Usd(50)),
      Json("open_long", "ETH", 0),
      Json("open_short", "BTC", 0 - Usd(500)),
      Json("close", "BTC", NoSize),
      Json("buy", "BTC", Usd(1000)) }

\* what the endpoint can do with the first request of a cycle, and with the retry
FirstReplies ==
    { Reply(SlowMs, "ok", Json("open_long", "BTC", NoSize)),
      Reply(FastMs, "network_error", Empty),
      Reply(FastMs, "not_ok", Json("open_long", "BTC", NoSize)),
      Reply(FastMs, "ok", Empty),
      Reply(FastMs, "ok", Prose),
      Reply(FastMs, "ok", Broken) }
    \cup { Reply(FastMs, "ok", j) : j \in LlmJsons }
RetryReplies ==
    { Reply(SlowMs, "ok", Json("open_long", "BTC", NoSize)),
      Reply(FastMs, "network_error", Empty),
      Reply(FastMs, "ok", Broken),
      Reply(FastMs, "ok", Json("open_long", "BTC", NoSize)) }

\* the aggregates of this specification: BTC at 100, 10% up, 20% up, 20% down
AgentAggregates ==
    { SortSpreads(<< Spread("BTC", q) >> \o e) :
        q \in { Quote(400, 100, 450, 2), Quote(400, 110, 450, 2), Quote(0, 120, 50, 2),
                Quote(0 - 600, 80, 0 - 600, 2) },
        e \in ListingsOf("ETH") }

\* runAiTraderCycle(name), with callLLM() computed from what the endpoint does
AgentRun(traderName, apiKey, replies) ==
    /\ LET found == SelectSeq(ai_traders, LAMBDA r : r.name = traderName /\ r.is_active)
           hit == CacheFresh(cachedAt, clock)
       IN  IF found = << >>
           THEN /\ ai' = [NoAiCall EXCEPT !.threw = TRUE]
                /\ llm' = NoLlmCall
                /\ UNCHANGED << cached, cachedAt, ai_traders, ai_positions, ai_decisions >>
           ELSE \E spreads \in (IF hit THEN {cached} ELSE AgentAggregates) :
                LET t == found[1]
                    l == callLLM(apiKey, replies)
                    r == RunAiTrader(t, spreads, clock, ai_positions, ai_decisions,
                                     l.decision)
                IN  /\ cached' = spreads
                    /\ cachedAt' = IF hit THEN cachedAt ELSE clock
                    /\ ai_positions' = r.positions
                    /\ ai_decisions' = r.decisions
                    /\ ai_traders' = [k \in 1..Len(ai_traders) |->
                           IF ai_traders[k].id = t.id
                           THEN [ai_traders[k] EXCEPT !.cash_balance = r.cash_balance]
                           ELSE ai_traders[k]]
                    /\ ai' = r.call
                    /\ llm' = [ called |-> TRUE, apiKey |-> apiKey,
                                requests |-> l.requests, decision |-> l.decision ]
    /\ UNCHANGED << fanOutVars, analytics, clock, paperVars, storeErrors, loopVars >>

\* one cycle of the trader, as the scheduler and POST /api/ai/run/:name start it
AgentCycle(traderName, apiKey, replies) ==
    /\ AgentRun(traderName, apiKey, replies)
    /\ UNCHANGED http

\* the store with the trader
InitAgent ==
    /\ InitStore
    /\ ai_traders # << >>
    /\ LoopIdle

NextAgent ==
    \/ \E d \in {TickMs} : Tick(d)
    \/ \E traderName \in TraderNames, apiKey \in BOOLEAN :
          \E first \in FirstReplies, retry \in RetryReplies :
              /\ Len(ai_decisions) < MaxAiDecisions
              /\ AgentCycle(traderName, apiKey, << first, retry >>)

SpecAgent == InitAgent /\ [][NextAgent]_vars

(* AI cycles up to the position cap *)

\* the assets the LLM names here: two that the primary venue lists and two it does not
CapAssets == { "BTC", "ETH", "SOL", "XRP" }

\* the LLM opens a position in one of them, or closes the one in BTC
CapReplies ==
    { Reply(FastMs, "ok", Json("open_long", a, Usd(1000))) : a \in CapAssets }
    \cup { Reply(FastMs, "ok", Json("open_short", NoAsset, Usd(1000))),
           Reply(FastMs, "ok", Json("close", "BTC", NoSize)) }

NextAgentCap ==
    \/ \E d \in {TickMs} : Tick(d)
    \/ \E first \in CapReplies :
          /\ Len(ai_decisions) < MaxCapCycles
          /\ AgentCycle(TraderName, TRUE, << first, first >>)

SpecAgentCap == InitAgent /\ [][NextAgentCap]_vars

(* The HTTP routes that name one asset, portfolio or trader *)

\* String.prototype.toUpperCase on the :asset values requested here
toUpperCase(s) ==
    CASE s = "btc" -> "BTC"
      [] s = "eth" -> "ETH"
      [] s = "doge" -> "DOGE"
      [] OTHER -> s

HttpAssets == { "BTC", "btc", "eth", "doge", "SOL" }
HttpPortfolioIds == { PortfolioId, "p9", "" }
HttpNames == TraderNames \cup { "MOMENTUM" }

\* what the LLM answers in the cycles run over HTTP
HttpReplies ==
    { Reply(FastMs, "ok", Json("hold", NoAsset, NoSize)),
      Reply(FastMs, "ok", Json("open_long", "BTC", Usd(1000))),
      Reply(FastMs, "ok", Json("close", "BTC", NoSize)) }

\* GET /api/funding/:asset
GetFundingAsset(param) ==
    /\ \E result \in (IF CacheFresh(cachedAt, clock) THEN {cached} ELSE AgentAggregates) :
          LET asset == toUpperCase(param)
              spread == SelectSeq(result, LAMBDA x : x.asset = asset)
          IN  /\ cached' = result
              /\ cachedAt' = IF CacheFresh(cachedAt, clock) THEN cachedAt ELSE clock
              /\ http' = IF spread = << >>
                         THEN Response("GET /api/funding/:asset", param, TRUE, 404,
                                       "Asset not found", FALSE)
                         ELSE Response("GET /api/funding/:asset", param, TRUE, 200, "", FALSE)
    /\ UNCHANGED << fanOutVars, llm, analytics, clock, paperVars, storeErrors, aiVars, loopVars >>

\* GET /api/paper/portfolios/:id
GetPaperPortfolio(db, id) ==
    /\ http' = IF ~db
               THEN Response("GET /api/paper/portfolios/:id", id, db, 500,
                             "DB not configured", FALSE)
               ELSE IF id \notin DOMAIN paper_portfolios
               THEN Response("GET /api/paper/portfolios/:id", id, db, 404, "Not found", FALSE)
               ELSE Response("GET /api/paper/portfolios/:id", id, db, 200, "", FALSE)
    /\ UNCHANGED << fanOutVars, llm, analytics, clock, cached, cachedAt, paperVars, storeErrors, aiVars,
                    loopVars >>

\* GET /api/ai/traders/:name: the trader row by name, active or not, then its
\* positions marked to what getCachedRates() returns
GetAiTrader(db, name) ==
    /\ LET trader == SelectSeq(ai_traders, LAMBDA r : r.name = name)
       IN  IF ~db
           THEN /\ http' = Response("GET /api/ai/traders/:name", name, db, 500,
                                    "DB not configured", FALSE)
                /\ UNCHANGED << cached, cachedAt >>
           ELSE IF trader = << >>
           THEN /\ http' = Response("GET /api/ai/traders/:name", name, db, 404,
                                    "Not found", FALSE)
                /\ UNCHANGED << cached, cachedAt >>
           ELSE /\ http' = Response("GET /api/ai/traders/:name", name, db, 200, "", FALSE)
                /\ \E result \in (IF CacheFresh(cachedAt, clock) THEN {cached}
                                  ELSE AgentAggregates) :
                      /\ cached' = result
                      /\ cachedAt' = IF CacheFresh(cachedAt, clock) THEN cachedAt
                                     ELSE clock
    /\ UNCHANGED << fanOutVars, llm, analytics, clock, paperVars, storeErrors, aiVars, loopVars >>

\* POST /api/ai/run/:name: runAiTraderCycle(name) in a try; the decision with
\* `ok: true`, or status 500 with the message of what was thrown. Without a store
\* client runAiTraderCycle returns a hold.
PostAiRun(db, name, apiKey, replies) ==
    IF ~db
    THEN /\ http' = Response("POST /api/ai/run/:name", name, db, 200, "", FALSE)
         /\ UNCHANGED << fanOutVars, llm, analytics, clock, cached, cachedAt, paperVars, storeErrors,
                         aiVars, loopVars >>
    ELSE /\ AgentRun(name, apiKey, replies)
         /\ LET wrote == << ai_traders', ai_positions', ai_decisions' >>
                              # << ai_traders, ai_positions, ai_decisions >>
            IN  http' = IF ai'.threw
                        THEN Response("POST /api/ai/run/:name", name, db, 500,
                                      "Trader '" \o name \o "' not found or inactive",
                                      wrote)
                        ELSE Response("POST /api/ai/run/:name", name, db, 200, "", wrote)

InitHttp ==
    /\ InitStore
    /\ LoopIdle

NextHttp ==
    \/ \E d \in {TickMs} : Tick(d)
    \/ \E param \in HttpAssets : GetFundingAsset(param)
    \/ \E db \in BOOLEAN, id \in HttpPortfolioIds : GetPaperPortfolio(db, id)
    \/ \E db \in BOOLEAN, name \in HttpNames : GetAiTrader(db, name)
    \/ \E db \in BOOLEAN, name \in HttpNames, first \in HttpReplies :
          /\ Len(ai_decisions) < MaxAiRuns
          /\ PostAiRun(db, name, TRUE, << first, first >>)

SpecHttp == InitHttp /\ [][NextHttp]_vars

(* Paper cycles of portfolios with and without configured exit thresholds *)

\* every strategy with the exit threshold left to its default, and three with
\* exit_rate_threshold or exit_spread_threshold configured; regime_adaptive also
\* with one position at most, which makes it enter BTC alone
ExitSeeds ==
    Seeds \cup
    { [strategy_name |-> "aggressive",
       strategy_config |-> [max_positions |-> 1, exit_spread_threshold |-> 500]],
      [strategy_name |-> "negative_fade",
       strategy_config |-> [exit_rate_threshold |-> 0 - 700]],
      [strategy_name |-> "regime_adaptive", strategy_config |-> [max_positions |-> 1]],
      [strategy_name |-> "regime_adaptive",
       strategy_config |-> [max_positions |-> 1, exit_rate_threshold |-> 500]] }

InitExits ==
    /\ clock = 0
    /\ cached = << >>
    /\ cachedAt = NoTime
    /\ \E seed \in ExitSeeds :
          paper_portfolios = [id \in {PortfolioId} |->
              [ id |-> id, strategy_name |-> seed.strategy_name,
                strategy_config |-> seed.strategy_config,
                cash_balance |-> InitialBalance, is_active |-> TRUE ]]
    /\ paper_positions = << >>
    /\ paper_transactions = << >>
    /\ pp = NoCall
    /\ cycle = NoCycle
    /\ storeErrors = 0
    /\ ai_traders = << >>
    /\ ai_positions = << >>
    /\ ai_decisions = << >>
    /\ ai = NoAiCall
    /\ llm = NoLlmCall
    /\ http = NoResponse
    /\ analytics = NoAnalytics
    /\ FanOutIdle
    /\ LoopIdle

NextExits ==
    \/ \E d \in {TickMs} : Tick(d)
    \/ \E result \in Aggregates : poll(result, NoFault)

SpecExits == InitExits /\ [][NextExits]_vars

(* Paper cycles of regime_adaptive portfolios with and without configured thresholds *)

\* the thresholds left to their defaults; both configured, wider than the defaults;
\* the short one low and the long one beyond every rate; and both configured with a
\* plus sign, negative_rate_threshold as a magnitude
RegimeSeeds ==
    { [strategy_name |-> "regime_adaptive", strategy_config |-> [max_positions |-> 5]],
      [strategy_name |-> "regime_adaptive",
       strategy_config |-> [positive_rate_threshold |-> 500,
                            negative_rate_threshold |-> 0 - 500]],
      [strategy_name |-> "regime_adaptive",
       strategy_config |-> [positive_rate_threshold |-> 100,
                            negative_rate_threshold |-> 0 - 700]],
      [strategy_name |-> "regime_adaptive",
       strategy_config |-> [positive_rate_threshold |-> 500,
                            negative_rate_threshold |-> 500]] }

\* the store with one active portfolio of the seed holding the cash given, nothing else
StoreWith(seed, cash_balance) ==
    /\ clock = 0
    /\ cached = << >>
    /\ cachedAt = NoTime
    /\ paper_portfolios = [id \in {PortfolioId} |->
          [ id |-> id, strategy_name |-> seed.strategy_name,
            strategy_config |-> seed.strategy_config,
            cash_balance |-> cash_balance, is_active |-> TRUE ]]
    /\ paper_positions = << >>
    /\ paper_transactions = << >>
    /\ pp = NoCall
    /\ cycle = NoCycle
    /\ storeErrors = 0
    /\ ai_traders = << >>
    /\ ai_positions = << >>
    /\ ai_decisions = << >>
    /\ ai = NoAiCall
    /\ llm = NoLlmCall
    /\ http = NoResponse
    /\ analytics = NoAnalytics
    /\ FanOutIdle
    /\ LoopIdle

\* the store with one active portfolio of the seed, nothing else
StoreOf(seed) == StoreWith(seed, InitialBalance)

InitRegime == \E seed \in RegimeSeeds : StoreOf(seed)

NextRegime ==
    \/ \E d \in {TickMs} : Tick(d)
    \/ \E result \in Aggregates : poll(result, NoFault)

SpecRegime == InitRegime /\ [][NextRegime]_vars

(* Cycles after a close: one paper portfolio, or one AI trader *)

\* the LLM opens a position in BTC or in ETH, closes the one in BTC, or holds
ClosedReplies ==
    { Reply(FastMs, "ok", Json("open_long", "BTC", Usd(1000))),
      Reply(FastMs, "ok", Json("open_short", "ETH", Usd(1000))),
      Reply(FastMs, "ok", Json("close", "BTC", NoSize)),
      Reply(FastMs, "ok", Json("hold", NoAsset, NoSize)) }

NextClosed ==
    \/ \E d \in {TickMs} : Tick(d)
    \/ \E result \in Aggregates : ai_traders = << >> /\ poll(result, NoFault)
    \/ \E first \in ClosedReplies :
          /\ ai_traders # << >>
          /\ Len(ai_decisions) < MaxCapCycles
          /\ AgentCycle(TraderName, TRUE, << first, first >>)

SpecClosed == Init /\ [][NextClosed]_vars

-----------------------------------------------------------------------------

(* Entries of one portfolio over position sizes and cash balances *)

\* max_position_size_pct of the portfolio: 1%, the default, 50%, 100%, 200%
EntrySizePcts == { 100, DEFAULT_MAX_POSITION_SIZE_PCT, 5000, FracDen, 2 * FracDen }

\* the cash the portfolio starts with
EntryCash == { 0, Usd(100), Usd(150), Usd(2001), Usd(10000) }

InitEntries ==
    \E pct \in EntrySizePcts, cash_balance \in EntryCash :
        StoreWith([ strategy_name |-> "regime_adaptive",
                    strategy_config |-> [max_position_size_pct |-> pct] ], cash_balance)

NextEntries ==
    \/ \E d \in {TickMs} : Tick(d)
    \/ \E result \in Aggregates : poll(result, NoFault)

SpecEntries == InitEntries /\ [][NextEntries]_vars

-----------------------------------------------------------------------------

(* Analytics over a series of snapshot values *)

MaxSnapshots == 5       \* how many snapshot values a series has at most

\* total_value of a snapshot, in units of 5,000 dollars: negative, zero, and three
\* positive values
SnapshotValues == { 0 - 1, 0, 1, 2, 3 }

RECURSIVE SeqsUpTo(_, _)
SeqsUpTo(S, n) ==
    IF n = 0 THEN { << >> }
    ELSE LET shorter == SeqsUpTo(S, n - 1)
         IN  shorter \cup { Append(s, x) : s \in { t \in shorter : Len(t) = n - 1 }, x \in S }

\* the route handler maps the snapshot rows to their values and calls
\* computeSharpeAndDrawdown(snapValues)
ComputeAnalytics ==
    /\ ~analytics.called
    /\ analytics' = [analytics EXCEPT !.called = TRUE,
                                      !.result = computeSharpeAndDrawdown(analytics.values)]
    /\ UNCHANGED << fanOutVars, llm, http, clock, cached, cachedAt, paperVars, storeErrors,
                    aiVars, loopVars >>

InitAnalytics ==
    /\ clock = 0
    /\ cached = << >>
    /\ cachedAt = NoTime
    /\ paper_portfolios = [id \in {} |-> << >>]
    /\ paper_positions = << >>
    /\ paper_transactions = << >>
    /\ pp = NoCall
    /\ cycle = NoCycle
    /\ storeErrors = 0
    /\ ai_traders = << >>
    /\ ai_positions = << >>
    /\ ai_decisions = << >>
    /\ ai = NoAiCall
    /\ llm = NoLlmCall
    /\ http = NoResponse
    /\ FanOutIdle
    /\ LoopIdle
    /\ \E values \in SeqsUpTo(SnapshotValues, MaxSnapshots) : analytics = Snapshots(values)

NextAnalytics == ComputeAnalytics

SpecAnalytics == InitAnalytics /\ [][NextAnalytics]_vars

(* Two owners: a store with two portfolios, or a store with two traders *)

OwnerTraders ==
    << [ id |-> TraderId, name |-> TraderName ], [ id |-> "t2", name |-> "contrarian" ] >>
OwnerTraderIds == { OwnerTraders[k].id : k \in 1..Len(OwnerTraders) }
OwnerNames == { OwnerTraders[k].name : k \in 1..Len(OwnerTraders) }

\* two active portfolios and no trader, the poll loop driving them; or two active
\* traders and no portfolio, two POST /api/ai/run requests to come
InitOwners ==
    /\ clock = 0
    /\ cached = << >>
    /\ cachedAt = NoTime
    /\ paper_positions = << >>
    /\ paper_transactions = << >>
    /\ pp = NoCall
    /\ cycle = NoCycle
    /\ storeErrors = 0
    /\ ai_positions = << >>
    /\ ai_decisions = << >>
    /\ ai = NoAiCall
    /\ llm = NoLlmCall
    /\ http = NoResponse
    /\ analytics = NoAnalytics
    /\ FanOutIdle
    /\ \/ /\ \E seed \in [FleetIds -> FleetSeeds] :
                paper_portfolios = [id \in FleetIds |->
                    [ id |-> id, strategy_name |-> seed[id].strategy_name,
                      strategy_config |-> seed[id].strategy_config,
                      cash_balance |-> InitialBalance, is_active |-> TRUE ]]
          /\ ai_traders = << >>
          /\ LoopIdle
       \/ /\ paper_portfolios = [id \in {} |-> << >>]
          /\ ai_traders = [k \in 1..Len(OwnerTraders) |->
                [ id |-> OwnerTraders[k].id, name |-> OwnerTraders[k].name,
                  cash_balance |-> Usd(INITIAL_BALANCE), is_active |-> TRUE ]]
          /\ LoopStart(0, 0, MaxAiRuns)

NextOwners ==
    \/ \E d \in {TickMs} : Tick(d)
    \/ \E result \in Aggregates : ai_traders = << >> /\ poll(result, NoFault)
    \/ \E traderName \in OwnerNames : AiRunStart(traderName)
    \/ \E t \in tasks :
          \/ AiLoadTrader(t)
          \/ AiGetRates(t)
          \/ \E result \in LoopAggregates : GetCachedRatesResume(t, result)
          \/ \E decision \in LoopDecisions : AiDecide(t, decision)

SpecOwners == InitOwners /\ [][NextOwners]_vars

(* One aggregateRates() call *)

\* the promise of venue v settles
Settle(v, outcome) ==
    /\ settled[v].status = "pending"
    /\ settled' = [settled EXCEPT ![v] = outcome]
    /\ UNCHANGED << aggregated, llm, http, analytics, clock, cached, cachedAt, paperVars, storeErrors, aiVars,
                    loopVars >>

\* the await of Promise.allSettled resumes and aggregateRates() runs to its return
AggregateReturn ==
    /\ ~aggregated.returned
    /\ AllSettled(settled)
    /\ aggregated' = [ returned |-> TRUE, result |-> aggregateRates(settled),
                       unsettled |-> { v \in VenueSet : settled[v].status = "pending" } ]
    /\ UNCHANGED << settled, llm, http, analytics, clock, cached, cachedAt, paperVars, storeErrors, aiVars,
                    loopVars >>

InitAggregator ==
    /\ InitStore
    /\ paper_portfolios[PortfolioId].strategy_name = "aggressive"
    /\ paper_portfolios[PortfolioId].is_active
    /\ LoopIdle

NextAggregator ==
    \/ \E v \in VenueSet : \E outcome \in OutcomesOf(v) : Settle(v, outcome)
    \/ AggregateReturn

SpecAggregator == InitAggregator /\ [][NextAggregator]_vars

-----------------------------------------------------------------------------
(* Properties.  pp and ai describe the latest call; the tables are as that call *)
(* left them, since only a call changes them.                                  *)

\* the transactions the latest processPortfolio call inserted
CycleTxs == SubSeq(paper_transactions, pp.txAtLoad + 1, Len(paper_transactions))

\* how many elements of the sequence s satisfy Test
Count(s, Test(_)) == Len(SelectSeq(s, Test))

\* whole funding periods between a position's last collection and the call
HoursDue(pos) == (pp.now - pos.last_funding_collected) \div FUNDING_PERIOD_MS

\* sizeUsd x (rate8h / 8) x hours x (+1 short_perp, -1 long_perp)
EarnedDue(pos) ==
    Scale(pos.size_usd,
          SpreadOf(pp.spreads, pos.asset).rate8h * HoursDue(pos)
              * (IF pos.side = "short_perp" THEN 1 ELSE 0 - 1),
          8 * FracDen)

\* position pos as loaded went through the funding step like this
FundingApplied(pos, earned, hours) ==
    /\ paper_positions[pos.id].total_funding_collected =
           pos.total_funding_collected + earned
    /\ paper_positions[pos.id].last_funding_collected =
           pos.last_funding_collected + hours * FUNDING_PERIOD_MS
    /\ Count(CycleTxs, LAMBDA t : t.type = "funding" /\ t.position_id = pos.id) = 1
    /\ \E k \in 1..Len(CycleTxs) :
           /\ CycleTxs[k].type = "funding" /\ CycleTxs[k].position_id = pos.id
           /\ CycleTxs[k].amount = earned

\* position pos as loaded was left alone by the funding step
FundingUntouched(pos) ==
    /\ paper_positions[pos.id].total_funding_collected = pos.total_funding_collected
    /\ paper_positions[pos.id].last_funding_collected = pos.last_funding_collected
    /\ Count(CycleTxs, LAMBDA t : t.type = "funding" /\ t.position_id = pos.id) = 0

\* C1: every runAiTraderCycle call for an existing active agent persists exactly one
\* ai_decisions row and performs at most one position mutation (one open or one
\* close), also when a stop loss fires in the funding / stop-loss step.
C1_OneDecisionOneMutation ==
    ai.done =>
        /\ Len(ai_decisions) - ai.decisionsAtLoad = 1
        /\ Len(ai.stopLossClosedIds)
               + (IF ai.openedId # NoId THEN 1 ELSE 0)
               + (IF ai.closedId # NoId THEN 1 ELSE 0) <= 1

\* C2: in the exit phase every open position whose signed price return is strictly
\* below -stop (config.stop_loss_pct, default 0.10) is closed in that cycle with exit
\* reason stop_loss, also when the strategy's own exit condition holds.
C2_StopLossFirst ==
    pp.done =>
        \A i \in 1..Len(pp.funded) :
            LET pos == pp.funded[i]
                mark == MarkOf(pp.spreads, pos.asset)
                stop == Cfg(pp.portfolio.strategy_config, "stop_loss_pct",
                            DEFAULT_STOP_LOSS_PCT)
                gain == IF pos.side = "short_perp" THEN pos.entry_price - mark
                        ELSE mark - pos.entry_price
            IN  ( /\ HasSpread(pp.spreads, pos.asset)
                  /\ mark # NoPrice /\ pos.entry_price # NoPrice
                  /\ gain * FracDen < (0 - stop) * pos.entry_price )
                => /\ ~paper_positions[pos.id].is_open
                   /\ paper_positions[pos.id].closed_at = pp.now
                   /\ Count(CycleTxs, LAMBDA t : /\ t.type = "close"
                                                 /\ t.position_id = pos.id
                                                 /\ t.note = "stop_loss") = 1
                   /\ Count(CycleTxs, LAMBDA t : /\ t.type = "close"
                                                 /\ t.position_id = pos.id) = 1

\* a position was stopped out in a cycle in which its strategy's exit rule held too
C2_Witness ==
    /\ pp.done
    /\ \E i \in 1..Len(pp.funded) :
          /\ pp.x[i].shouldExit /\ pp.x[i].exitReason = "stop_loss"
          /\ StrategyExit(pp.portfolio.strategy_name, pp.portfolio.strategy_config,
                          pp.funded[i], SpreadOf(pp.spreads, pp.funded[i].asset))
          /\ ~paper_positions[pp.funded[i].id].is_open

\* C3 as stated: for every open position whose asset has a primary rate and with
\* hours = floor((now - lastFundingAt) / 1 hour) >= 1, totalFundingCollected grows by
\* earned, lastFundingAt advances by exactly that many hours, exactly one funding
\* transaction of amount earned is inserted and cash is credited by earned; with
\* hours <= 0 none of these change.
C3_AsStated ==
    pp.done =>
        /\ \A i \in 1..Len(pp.loaded) :
              LET pos == pp.loaded[i]
              IN  IF HasSpread(pp.spreads, pos.asset) /\ HoursDue(pos) >= 1
                  THEN FundingApplied(pos, EarnedDue(pos), HoursDue(pos))
                  ELSE HoursDue(pos) <= 0 => FundingUntouched(pos)
        /\ pp.cashAfterFunding - pp.portfolio.cash_balance =
              SumSeq([i \in 1..Len(pp.loaded) |->
                  IF HasSpread(pp.spreads, pp.loaded[i].asset) /\ HoursDue(pp.loaded[i]) >= 1
                  THEN EarnedDue(pp.loaded[i]) ELSE 0])

\* C3, amended: the same for every such position whose earned amount is at least a
\* tenth of a cent in absolute value; a position with hours <= 0, or whose earned
\* amount is smaller than that, is left unchanged (lastFundingAt included), no
\* transaction is inserted for it and cash is not credited.
C3_FundingAccrual ==
    pp.done =>
        /\ \A i \in 1..Len(pp.loaded) :
              LET pos == pp.loaded[i]
              IN  IF HasSpread(pp.spreads, pos.asset) /\ HoursDue(pos) >= 1
                  THEN IF Abs(EarnedDue(pos)) >= FUNDING_DUST
                       THEN FundingApplied(pos, EarnedDue(pos), HoursDue(pos))
                       ELSE FundingUntouched(pos)
                  ELSE HoursDue(pos) <= 0 => FundingUntouched(pos)
        /\ pp.cashAfterFunding - pp.portfolio.cash_balance =
              SumSeq([i \in 1..Len(pp.loaded) |->
                  IF /\ HasSpread(pp.spreads, pp.loaded[i].asset)
                     /\ HoursDue(pp.loaded[i]) >= 1
                  THEN EarnedDue(pp.loaded[i]) ELSE 0])

\* a cycle collected funding on a position that was due an hour or more
C3_Witness ==
    /\ pp.done
    /\ \E i \in 1..Len(pp.loaded) :
          /\ HasSpread(pp.spreads, pp.loaded[i].asset)
          /\ HoursDue(pp.loaded[i]) >= 1
          /\ EarnedDue(pp.loaded[i]) # 0
          /\ paper_positions[pp.loaded[i].id].total_funding_collected #
                 pp.loaded[i].total_funding_collected

\* the close transaction of position id, if exactly one exists
CloseTxOf(id) ==
    paper_transactions[CHOOSE k \in 1..Len(paper_transactions) :
        paper_transactions[k].type = "close" /\ paper_transactions[k].position_id = id]

\* the sum of the funding transactions of position id
FundingCredited(id) ==
    SumSeq([k \in 1..Len(paper_transactions) |->
        IF paper_transactions[k].type = "funding" /\ paper_transactions[k].position_id = id
        THEN paper_transactions[k].amount ELSE 0])

\* +-(entryPrice - mark) / entryPrice x sizeUsd, for prices that are known
PriceReturnDue(row) ==
    Scale(row.size_usd,
          IF row.side = "short_perp" THEN row.entry_price - row.exit_price
          ELSE row.exit_price - row.entry_price,
          row.entry_price)

\* C4: over the life of a paper position (open, accruals, close) the cash the
\* portfolio receives on account of funding equals the position's final
\* totalFundingCollected: what the funding transactions credited, plus what the close
\* credit holds beyond size + priceReturn - exitFee.
C4_FundingCreditedOnce ==
    \A k \in 1..Len(paper_positions) :
        LET row == paper_positions[k]
        IN  ~row.is_open =>
                FundingCredited(row.id)
                    + (CloseTxOf(row.id).amount
                         - (row.size_usd + PriceReturn(row, row.exit_price)
                              - Frac(row.size_usd, TRADING_FEE)))
                = row.total_funding_collected

\* C5: for every paper and AI position, lastFundingAt is not later than the current
\* time and differs from openedAt by a whole number of hours.
C5_FundingClock ==
    /\ \A k \in 1..Len(paper_positions) :
          /\ paper_positions[k].last_funding_collected <= clock
          /\ paper_positions[k].last_funding_collected >= paper_positions[k].opened_at
          /\ (paper_positions[k].last_funding_collected - paper_positions[k].opened_at)
                 % FUNDING_PERIOD_MS = 0
    /\ \A k \in 1..Len(ai_positions) :
          /\ ai_positions[k].last_funding_at <= clock
          /\ ai_positions[k].last_funding_at >= ai_positions[k].opened_at
          /\ (ai_positions[k].last_funding_at - ai_positions[k].opened_at)
                 % FUNDING_PERIOD_MS = 0

\* an AI position has collected funding while the clock stands off the hour
C5_Witness ==
    \E k \in 1..Len(ai_positions) :
        /\ ai_positions[k].last_funding_at > ai_positions[k].opened_at
        /\ ai_positions[k].funding_collected # 0
        /\ clock > ai_positions[k].last_funding_at

\* C6: after any sequence of paper cycles a portfolio has at most one open position
\* per asset.
C6_OneOpenPerAsset ==
    \A j, k \in 1..Len(paper_positions) :
        ( /\ j # k
          /\ paper_positions[j].is_open /\ paper_positions[k].is_open
          /\ paper_positions[j].portfolio_id = paper_positions[k].portfolio_id )
        => paper_positions[j].asset # paper_positions[k].asset

\* a cycle passed the entry gate while a position stayed open whose asset the
\* strategy would otherwise have entered
C6_Witness ==
    /\ pp.done
    /\ \E i \in 1..Len(pp.funded) :
          /\ paper_positions[pp.funded[i].id].is_open
          /\ EntryGate(Len(pp.funded) - Len(pp.positionsToRemove),
                       Cfg(pp.portfolio.strategy_config, "max_positions",
                           DEFAULT_MAX_POSITIONS),
                       pp.cashAfterExits, pp.maxPositionSize)
          /\ \E c \in Range(Candidates(pp.portfolio.strategy_name,
                                       pp.portfolio.strategy_config, pp.spreads, {})) :
                 c.asset = pp.funded[i].asset

\* C7 as stated: an exited position has realizedPnl = priceReturn +
\* totalFundingCollected - exitFee and is credited sizeUsd + priceReturn +
\* totalFundingCollected - exitFee, with exitFee = sizeUsd x 0.0005 and priceReturn =
\* +-(entryPrice - mark) / entryPrice x sizeUsd; it is stored closed with exitPrice,
\* realizedPnl and closedAt set.
C7_AsStated ==
    \A k \in 1..Len(paper_positions) :
        LET row == paper_positions[k]
            exitFee == Frac(row.size_usd, TRADING_FEE)
        IN  ~row.is_open =>
                /\ row.exit_price # NoPrice /\ row.entry_price # NoPrice
                /\ row.closed_at # NoTime
                /\ row.realized_pnl =
                       PriceReturnDue(row) + row.total_funding_collected - exitFee
                /\ CloseTxOf(row.id).amount =
                       row.size_usd + PriceReturnDue(row) + row.total_funding_collected
                           - exitFee

\* C7, amended: the same with priceReturn = +-(entryPrice - mark) / entryPrice x
\* sizeUsd when the mark and the entry price are both known, and priceReturn = 0 when
\* either is missing; exitPrice is stored as the mark, missing when the mark is.
C7_ExitAccounting ==
    /\ \A k \in 1..Len(paper_positions) :
          LET row == paper_positions[k]
              exitFee == Frac(row.size_usd, TRADING_FEE)
              priceReturn == IF row.exit_price # NoPrice /\ row.entry_price # NoPrice
                             THEN PriceReturnDue(row) ELSE 0
          IN  ~row.is_open =>
                  /\ row.closed_at # NoTime
                  /\ row.realized_pnl = priceReturn + row.total_funding_collected - exitFee
                  /\ CloseTxOf(row.id).amount =
                         row.size_usd + priceReturn + row.total_funding_collected - exitFee
    /\ pp.done =>
          /\ \A j \in 1..Len(pp.positionsToRemove) :
                LET row == paper_positions[pp.positionsToRemove[j]]
                IN  /\ ~row.is_open /\ row.closed_at = pp.now
                    /\ row.exit_price = MarkOf(pp.spreads, row.asset)
          /\ pp.cashAfterExits - pp.cashAfterFunding =
                SumSeq([j \in 1..Len(pp.positionsToRemove) |->
                    CloseTxOf(pp.positionsToRemove[j]).amount])

\* a position was exited at a price away from its entry price, with funding collected
C7_Witness ==
    /\ pp.done
    /\ \E j \in 1..Len(pp.positionsToRemove) :
          LET row == paper_positions[pp.positionsToRemove[j]]
          IN  /\ row.exit_price # NoPrice /\ row.entry_price # NoPrice
              /\ row.exit_price # row.entry_price
              /\ row.total_funding_collected # 0

\* C8: every position the paper engine opened has exactly one open transaction
\* (amount -size) and exactly one fee transaction (amount -fee), and every position
\* it closed has exactly one close transaction.  Open and fee transactions carry no
\* position id: the n-th position of an asset answers to the n-th of each.
C8_OneTransactionEach ==
    /\ \A i \in 1..Len(Assets) :
          LET rows == SelectSeq(paper_positions, LAMBDA r : r.asset = Assets[i])
              opens == SelectSeq(paper_transactions,
                           LAMBDA t : t.type = "open" /\ t.asset = Assets[i])
              fees == SelectSeq(paper_transactions,
                          LAMBDA t : t.type = "fee" /\ t.asset = Assets[i])
          IN  /\ Len(opens) = Len(rows) /\ Len(fees) = Len(rows)
              /\ \A n \in 1..Len(rows) :
                    /\ opens[n].amount = 0 - rows[n].size_usd
                    /\ fees[n].amount = 0 - rows[n].fees_paid
                    /\ rows[n].fees_paid = Frac(rows[n].size_usd, TRADING_FEE)
    /\ \A k \in 1..Len(paper_positions) :
          Count(paper_transactions,
                LAMBDA t : t.type = "close" /\ t.position_id = paper_positions[k].id)
              = IF paper_positions[k].is_open THEN 0 ELSE 1

\* one position is closed and another one open, its store insert having failed once
C8_Witness ==
    /\ storeErrors > 0
    /\ \E j, k \in 1..Len(paper_positions) :
          ~paper_positions[j].is_open /\ paper_positions[k].is_open

\* C9: every position opened in the entry phase has sizeUsd = min(maxPositionSize,
\* cash - maxPositionSize x 0.0005) on the cash at that moment, sizeUsd >= 100 and
\* cash >= sizeUsd + sizeUsd x 0.0005 beforehand, and opening it takes exactly
\* sizeUsd + sizeUsd x 0.0005 from cash.
C9_EntrySizing ==
    pp.done =>
        /\ \A n \in 1..Len(pp.opened) :
              LET o == pp.opened[n]
                  size == paper_positions[o.id].size_usd
                  fee == Frac(size, TRADING_FEE)
              IN  /\ o.cashBefore = IF n = 1 THEN pp.cashAfterExits
                                    ELSE pp.opened[n - 1].cashAfter
                  /\ size = Min(pp.maxPositionSize,
                                o.cashBefore - Frac(pp.maxPositionSize, TRADING_FEE))
                  /\ size >= Usd(MIN_POSITION_USD)
                  /\ o.cashBefore >= size + fee
                  /\ o.cashAfter = o.cashBefore - (size + fee)
        /\ pp.cashBalance = IF pp.opened = << >> THEN pp.cashAfterExits
                            ELSE pp.opened[Len(pp.opened)].cashAfter
        /\ pp.clean => paper_portfolios[pp.portfolio.id].cash_balance = pp.cashBalance
        /\ Len(paper_positions) - pp.rowsAtLoad = Len(pp.opened)

\* a position was opened at the size the cash allowed, below maxPositionSize
C9_Witness ==
    /\ pp.done /\ pp.clean
    /\ \E n \in 1..Len(pp.opened) :
          /\ paper_positions[pp.opened[n].id].size_usd < pp.maxPositionSize
          /\ paper_portfolios[pp.portfolio.id].cash_balance = pp.opened[n].cashAfter

\* C10: a paper cycle run again at the same time against the same aggregate, right
\* after a cycle that ran through, opens no position, closes no position and accrues
\* no funding.
C10_Idempotent ==
    (pp.done /\ pp.repeat) =>
        /\ pp.opened = << >>
        /\ pp.positionsToRemove = << >>
        /\ \A i \in 1..Len(pp.f) : ~pp.f[i].collected
        /\ CycleTxs = << >>

-----------------------------------------------------------------------------
(* The loop over the portfolios *)

\* the ids the latest runPaperTradingCycle call handed to processPortfolio
ProcessedIds == { cycle.processed[k].id : k \in 1..Len(cycle.processed) }

\* every active portfolio was handed to processPortfolio, each once, and no other
EveryActiveOnce ==
    /\ ProcessedIds = cycle.active
    /\ Len(cycle.processed) = Cardinality(cycle.active)

\* C11 as stated: every runPaperTradingCycle call of a poll processes every active
\* portfolio exactly once, whatever exception one of them throws.
C11_AsStated == cycle.called => EveryActiveOnce

\* C11: a runPaperTradingCycle call that read an aggregate with at least one spread and
\* loaded the active portfolios without a store error processes every active
\* portfolio exactly once, whatever exception one of them throws; a call that read an
\* empty aggregate, or whose load of the portfolios failed, processes none.
C11_EveryActiveOnce ==
    /\ cycle.ran => EveryActiveOnce
    /\ (cycle.called /\ ~cycle.ran) => cycle.processed = << >>

\* the first portfolio threw and the second was processed and opened a position
C11_Witness ==
    /\ cycle.ran
    /\ Len(cycle.processed) = 2
    /\ cycle.processed[1].threw
    /\ ~cycle.processed[2].threw
    /\ pp.done /\ pp.portfolio.id = cycle.processed[2].id
    /\ pp.opened # << >>

-----------------------------------------------------------------------------
(* Cycles in flight and the cache they read *)

\* a paper cycle that has its portfolios and is inside or before their processPortfolio
PaperInFlight(t) == t.kind = "paper" /\ t.pc = "process"

\* an AI cycle that has loaded its trader and has not returned
AiInFlight(t) == t.kind = "ai" /\ t.pc \in {"rates", "fetch", "llm"}

\* C12: no two paper cycles holding the same portfolio and no two AI cycles holding
\* the same trader are in flight at the same time.
C12_NoOverlap ==
    \A t, u \in tasks :
        t # u =>
            /\ ~ /\ PaperInFlight(t) /\ PaperInFlight(u)
                 /\ \E k \in 1..Len(t.portfolios), l \in 1..Len(u.portfolios) :
                        t.portfolios[k].id = u.portfolios[l].id
            /\ ~ /\ AiInFlight(t) /\ AiInFlight(u)
                 /\ t.trader.id = u.trader.id

\* a paper cycle that has the aggregate getCachedRates() returned to it
HasRead(t) == t.kind = "paper" /\ t.pc \in {"portfolios", "process"}

\* C13: the aggregate a paper cycle got from getCachedRates() is the one its poll wrote
\* with updateCache or one written to the cache after that, never one written before.
C13_ReadsOwnTick ==
    \A t \in tasks :
        HasRead(t) =>
            /\ t.readSeq >= t.updateSeq
            /\ t.spreads = cacheWrites[t.readSeq].result

\* a paper cycle read an aggregate that an HTTP handler's getCachedRates() wrote after
\* the cycle's poll had updated the cache
C13_Witness ==
    \E t \in tasks :
        /\ HasRead(t)
        /\ t.readSeq > t.updateSeq
        /\ cacheWrites[t.readSeq].by = "get"

\* the latest updateCache among the first n writes of the cache, 0 when there is none
LastUpdate(n) ==
    LET U == { k \in 1..n : cacheWrites[k].by = "update" }
    IN  IF U = {} THEN 0 ELSE CHOOSE k \in U : \A l \in U : l <= k

\* C15: a getCachedRates() call that returns less than 30 s after the latest
\* updateCache(r) before its return returns r.
C15_UpdateHolds ==
    \A g \in 1..Len(getReturns) :
        LET u == LastUpdate(getReturns[g].seq)
        IN  (u > 0 /\ getReturns[g].at - cacheWrites[u].at < CACHE_TTL_MS) =>
                getReturns[g].result = cacheWrites[u].result

\* C16: when a getCachedRates() call has returned a result, a call made after that
\* return and less than 30 s after the result was put into the cache, with no
\* updateCache between the two returns, returns the same result.
C16_SameWithinTtl ==
    \A g1, g2 \in 1..Len(getReturns) :
        ( /\ getReturns[g2].calledAfter >= g1
          /\ getReturns[g2].calledAt - cacheWrites[getReturns[g1].seq].at < CACHE_TTL_MS
          /\ LastUpdate(getReturns[g2].seq) <= getReturns[g1].seq ) =>
            getReturns[g2].result = getReturns[g1].result

-----------------------------------------------------------------------------
(* The three phases of processPortfolio *)

\* the phase a transaction belongs to: 1 funding, 2 exits, 3 entries
TxPhase(t) == IF t.type = "funding" THEN 1 ELSE IF t.type = "close" THEN 2 ELSE 3

\* what the transactions of the latest call moved for the given type and position
CycleAmount(type, id) ==
    SumSeq([k \in 1..Len(CycleTxs) |->
               IF CycleTxs[k].type = type /\ (id = NoId \/ CycleTxs[k].position_id = id)
               THEN CycleTxs[k].amount ELSE 0])

\* C14: in one processPortfolio call every funding accrual comes before any exit and
\* every exit before any entry: the transactions are inserted in that order, a
\* position that exits is settled with the funding the same call accrued on it, and
\* the first entry starts from the cash the accruals and the exits left.
C14_PhaseOrder ==
    pp.done =>
        /\ \A i, j \in 1..Len(CycleTxs) :
              i < j => TxPhase(CycleTxs[i]) <= TxPhase(CycleTxs[j])
        /\ \A i \in 1..Len(pp.loaded) :
              pp.loaded[i].id \in Range(pp.positionsToRemove) =>
                  paper_positions[pp.loaded[i].id].realized_pnl =
                      pp.x[i].priceReturn
                      + pp.loaded[i].total_funding_collected
                      + CycleAmount("funding", pp.loaded[i].id)
                      - pp.x[i].exitFee
        /\ pp.opened # << >> =>
              pp.opened[1].cashBefore =
                  pp.portfolio.cash_balance + CycleAmount("funding", NoId)
                      + CycleAmount("close", NoId)

\* one call accrued funding on a position, closed it and opened another position
C14_Witness ==
    /\ pp.done /\ pp.clean
    /\ \E i \in 1..Len(pp.loaded) :
          /\ pp.f[i].collected
          /\ pp.loaded[i].id \in Range(pp.positionsToRemove)
    /\ pp.opened # << >>

-----------------------------------------------------------------------------
(* What aggregateRates() returns *)

CexSet == { CexVenues[k] : k \in 1..Len(CexVenues) }

\* the CEX venues that have a rate on spread s
PresentCex(s) == { v \in CexSet : s[v] # Null }

\* the spreads of the call that returned
Spreads == aggregated.result.spreads

C18_NoCexZero ==
    aggregated.returned =>
        \A k \in 1..Len(Spreads) :
            PresentCex(Spreads[k]) = {} =>
                /\ Spreads[k].bestCex = "none"
                /\ Spreads[k].maxSpread = 0

\* C19: when the primary adapter has failed, aggregateRates() returns no spreads and
\* no rates, and it returns only when all four adapters have settled.
C19_PrimaryFailure ==
    (aggregated.returned /\ settled["hyperliquid"].status = "rejected") =>
        /\ aggregated.result.spreads = << >>
        /\ aggregated.result.allRates = << >>
        /\ aggregated.unsettled = {}

\* the primary adapter failed while a CEX adapter delivered rates
C19_Witness ==
    /\ aggregated.returned
    /\ settled["hyperliquid"].status = "rejected"
    /\ \E v \in CexSet : settled[v].status = "fulfilled" /\ settled[v].value # << >>
    /\ \E v \in CexSet : settled[v].status = "rejected"

\* the outcomes with every failed CEX adapter replaced by one that delivered no rate
FailedAsEmpty(s) ==
    [v \in VenueSet |->
        IF v \in CexSet /\ s[v].status = "rejected" THEN FulfilledWith(<< >>) ELSE s[v]]

\* C20: when the primary adapter succeeds, aggregateRates() returns one spread for
\* every primary-venue rate whichever CEX adapters failed, a failed venue's entry is
\* null on every spread and is never the bestCex, and the result is the one the
\* call would return had the failed adapters delivered empty lists.
C20_CexFailure ==
    (aggregated.returned /\ settled["hyperliquid"].status = "fulfilled") =>
        /\ Len(Spreads) = Len(settled["hyperliquid"].value)
        /\ \A k \in 1..Len(settled["hyperliquid"].value) :
              \E j \in 1..Len(Spreads) : Spreads[j].hl = settled["hyperliquid"].value[k]
        /\ \A j \in 1..Len(Spreads), v \in CexSet :
              settled[v].status = "rejected" =>
                  Spreads[j][v] = Null /\ Spreads[j].bestCex # v
        /\ aggregated.result = aggregateRates(FailedAsEmpty(settled))

\* two CEX adapters failed and the spread is computed against the third
C20_Witness ==
    /\ aggregated.returned
    /\ settled["hyperliquid"].status = "fulfilled"
    /\ Cardinality({ v \in CexSet : settled[v].status = "rejected" }) = 2
    /\ \E j \in 1..Len(Spreads) :
          /\ Spreads[j].bestCex \in CexSet
          /\ settled[Spreads[j].bestCex].status = "fulfilled"
          /\ Spreads[j].maxSpread # Spreads[j].hl.rate8h

-----------------------------------------------------------------------------
(* The poll loop *)

\* tick n has been started by the timer (the ticks are numbered downward)
Fired(n) == pending.poll < n

\* something failed in tick n and was logged
FailedIn(n) == \E t \in tasks : t.n = n /\ t.pc = "logged"

\* tick n has updated the cache
Updated(t) ==
    /\ t.updateSeq \in 1..Len(cacheWrites)
    /\ cacheWrites[t.updateSeq].by = "update"

\* the timer's next tick is due within the time the clock of the model runs
NextTickInReach == nextPollAt <= MaxLoopSteps * StepMs

\* C21: after a tick in which aggregateRates(), saveSnapshot() or
\* runPaperTradingCycle() threw or rejected, the next tick still fires; and the cache
\* update of a tick is complete while the snapshot writer and the paper cycle the tick
\* started are still unfinished, so it waits for neither.
C21_KeepsTicking ==
    /\ \A n \in 2..MaxPolls : ((FailedIn(n) /\ NextTickInReach) ~> Fired(n - 1))
    /\ [](\A t \in tasks : t.kind \in {"snapshot", "paper"} => Updated(t))

\* tick MaxPolls lost its snapshot and its paper cycle, the tick after it fired and
\* its aggregation threw
C21_Witness ==
    /\ \E t \in tasks : t.kind = "snapshot" /\ t.n = MaxPolls /\ t.pc = "logged"
    /\ \E t \in tasks : t.kind = "paper" /\ t.n = MaxPolls /\ t.pc = "logged"
    /\ \E t \in tasks : t.kind = "poll" /\ t.n = MaxPolls - 1 /\ t.pc = "logged"
    /\ Fired(MaxPolls - 1)

-----------------------------------------------------------------------------
(* The AI cycle: the LLM step and the execute step *)

\* the row the latest cycle logged last: its decision
LastDecision == ai_decisions[Len(ai_decisions)]

\* the latest cycle ran to its end and called callLLM on the way
CycleDone == ai.done /\ llm.called

\* what the funding loop of the latest cycle credited
CycleFunding ==
    SumSeq([i \in 1..Len(ai.loaded) |->
        AiFundingOf(ai.loaded[i], ai.spreads, ai.now).fundingEarned])

\* what the stop-loss closes of the latest cycle returned to cash
CycleStopLossCredit ==
    SumSeq([j \in 1..Len(ai.stopLossClosedIds) |->
        LET row == ai_positions[ai.stopLossClosedIds[j]]
        IN  row.size_usd + computeUnrealizedPnl(row, MarkOf(ai.spreads, row.asset))
                - Frac(row.size_usd, TRADING_FEE)])

BothTimedOut ==
    /\ CycleDone
    /\ Len(llm.requests) = 2
    /\ llm.requests[1].timedOut /\ llm.requests[2].timedOut

\* the endpoint is requested at most twice, the second time only after the first
\* request was aborted at 45 s or the first attempt threw; when both are aborted the
\* cycle logs the hold decision of the timeout and its execute step does nothing
RetryOnce ==
    CycleDone =>
        /\ Len(llm.requests) <= 2
        /\ Len(llm.requests) = 2 =>
              \/ llm.requests[1].timedOut /\ llm.requests[1].ms = 45000
              \/ llm.requests[1].threw
        /\ BothTimedOut =>
              /\ LastDecision.action = "hold"
              /\ LastDecision.reasoning = "LLM timed out after 45s -- holding"
              /\ ai.openedId = NoId /\ ai.closedId = NoId

OpenAi == SelectSeq(ai_positions, LAMBDA r : r.is_open)

\* the positions the latest cycle still held when it executed its decision
HeldAtExecute ==
    SelectSeq(ai.loaded,
              LAMBDA r : \A j \in 1..Len(ai.stopLossClosedIds) : ai.stopLossClosedIds[j] # r.id)

\* the asset an open decision is about: decision.asset ?? 'BTC'
AssetAsked == IF llm.decision.asset = NoAsset THEN "BTC" ELSE llm.decision.asset

\* the LLM asked for an open although the trader held 3 positions, or one in that asset
OpenRefused ==
    /\ CycleDone
    /\ llm.decision.action \in {"open_long", "open_short"}
    /\ \/ Len(HeldAtExecute) >= 3
       \/ \E i \in 1..Len(HeldAtExecute) : HeldAtExecute[i].asset = AssetAsked

\* C23: after any sequence of AI cycles run one after the other the agent has at most
\* 3 open positions and at most one per asset; an open decided at 3 open positions, or
\* for an asset with an open position, is logged as hold and inserts no position.
C23_PositionCap ==
    /\ Len(OpenAi) <= 3
    /\ \A i, j \in 1..Len(OpenAi) : OpenAi[i].asset = OpenAi[j].asset => i = j
    /\ OpenRefused =>
          /\ LastDecision.action = "hold"
          /\ ai.openedId = NoId
          /\ Len(OpenAi) = Len(HeldAtExecute)

\* an open was refused at 3 open positions, for an asset the trader did not hold
C23_Witness ==
    /\ OpenRefused
    /\ Len(HeldAtExecute) = 3
    /\ \A i \in 1..Len(HeldAtExecute) : HeldAtExecute[i].asset # AssetAsked
    /\ Len(OpenAi) = 3

\* C24: every position the AI engine opens has 100 <= sizeUsd <= 0.3 x totalValue of
\* its cycle, whatever size_usd the LLM asked for; an open whose size would be below
\* 100 is logged as hold; an executed open debits cash by size + size x 0.0005.
C24_OpenSize ==
    CycleDone =>
        /\ ai.openedId # NoId =>
              LET row == ai_positions[ai.openedId]
              IN  /\ Usd(MIN_POSITION_USD) <= row.size_usd
                  /\ row.size_usd <= Frac(ai.totalValue, AI_MAX_SIZE_PCT)
                  /\ ai.cashBalance =
                         ai.cashAtLoad + CycleFunding + CycleStopLossCredit
                             - (row.size_usd + Frac(row.size_usd, TRADING_FEE))
        /\ ( /\ llm.decision.action \in {"open_long", "open_short"}
             /\ llm.decision.size_usd # NoSize
             /\ llm.decision.size_usd < Usd(MIN_POSITION_USD) ) =>
              LastDecision.action = "hold" /\ ai.openedId = NoId

\* (exit - entry) / entry x sizeUsd for a long, (entry - exit) / entry x sizeUsd for a
\* short; the code takes 0 when the exit or the entry price is not known
AiPriceReturn(row, exit) ==
    IF exit = NoPrice \/ row.entry_price_approx = NoPrice THEN 0
    ELSE Scale(row.size_usd,
               IF row.direction = "long" THEN exit - row.entry_price_approx
               ELSE row.entry_price_approx - exit,
               row.entry_price_approx)

\* the positions the latest cycle closed: by stop loss, and by the LLM's decision
CycleClosedIds ==
    ai.stopLossClosedIds \o (IF ai.closedId # NoId THEN << ai.closedId >> ELSE << >>)

\* sizeUsd + priceReturn - exitFee of a position the latest cycle closed
AiCloseCredit(row) ==
    row.size_usd + AiPriceReturn(row, MarkOf(ai.spreads, row.asset))
        - Frac(row.size_usd, TRADING_FEE)

\* what the latest cycle debited for the position it opened
CycleOpenDebit ==
    IF ai.openedId = NoId THEN 0
    ELSE ai_positions[ai.openedId].size_usd + ai_positions[ai.openedId].fees_paid

IllFormed(k) ==
    LET q == llm.requests[k]
    IN  /\ ~q.timedOut
        /\ q.reply.status # "network_error"
        /\ \/ q.reply.status # "ok"
           \/ q.reply.content.text \in {"empty", "prose", "broken"}
           \/ q.reply.content.json.action \notin ValidActions

\* C26: when the LLM step yields no well-formed decision (no OPENROUTER_API_KEY, an
\* error response, an empty response, a response without a JSON object, JSON that
\* does not parse, an action outside open_long, open_short, close, hold) the cycle's
\* decision is hold and its execute step opens and closes no position.
C26_IllFormedHolds ==
    (CycleDone /\ (~llm.apiKey \/ \E k \in 1..Len(llm.requests) : IllFormed(k))) =>
        /\ LastDecision.action = "hold"
        /\ ai.openedId = NoId
        /\ ai.closedId = NoId

-----------------------------------------------------------------------------
(* Owners *)

\* how many positions of portfolio b have an id up to id: the position's number
\* among the positions of b
RankIn(positions, b, id) ==
    Cardinality({ k \in 1..Len(positions) :
                    positions[k].portfolio_id = b /\ positions[k].id <= id })

\* what the store holds of portfolio b: its cash, its positions and its transactions,
\* the positions numbered within the portfolio
PortfolioState(b, cash, positions, transactions) ==
    LET own == SelectSeq(positions, LAMBDA r : r.portfolio_id = b)
        txs == SelectSeq(transactions, LAMBDA r : r.portfolio_id = b)
    IN  [ cash |-> cash,
          positions |-> [k \in 1..Len(own) |-> [own[k] EXCEPT !.id = k]],
          transactions |-> [k \in 1..Len(txs) |->
              [txs[k] EXCEPT !.position_id =
                  IF @ = NoId THEN NoId ELSE RankIn(positions, b, @)]] ]

\* what the store holds of trader b: its row, its positions and its decisions
TraderState(b, traders, positions, decisions) ==
    << SelectSeq(traders, LAMBDA r : r.id = b),
       SelectSeq(positions, LAMBDA r : r.trader_id = b),
       SelectSeq(decisions, LAMBDA r : r.trader_id = b) >>

\* the positions table with the rows of every trader but b turned into other rows
OthersChanged(positions, b) ==
    [k \in 1..Len(positions) |->
        IF positions[k].trader_id = b THEN positions[k]
        ELSE [positions[k] EXCEPT !.is_open = ~@, !.size_usd = @ + Usd(1000),
                                  !.asset = IF @ = "BTC" THEN "ETH" ELSE "BTC"]]

\* a paper cycle leaves each portfolio it processed as processPortfolio leaves that
\* portfolio when it runs alone on the store the cycle found
PaperIndependent ==
    (paper_positions' # paper_positions \/ paper_transactions' # paper_transactions
        \/ paper_portfolios' # paper_portfolios) =>
        \A b \in cycle'.active :
            ~Throws(paper_portfolios[b]) =>
                LET r == ProcessPortfolio(paper_portfolios[b], cached', clock,
                                          paper_positions, paper_transactions, NoFault)
                IN  PortfolioState(b, paper_portfolios'[b].cash_balance,
                                   paper_positions', paper_transactions')
                        = PortfolioState(b, r.cash_balance, r.positions, r.transactions)

\* a step changes the rows of one trader at most
AgentFrame ==
    \E a \in OwnerTraderIds :
        \A b \in OwnerTraderIds \ {a} :
            TraderState(b, ai_traders', ai_positions', ai_decisions')
                = TraderState(b, ai_traders, ai_positions, ai_decisions)

\* what a cycle of a trader comes to does not depend on the rows of the others
AgentReadsOwn ==
    \A k \in 1..Len(ai_traders) : \A decision \in LoopDecisions :
        LET t == ai_traders[k]
            here == RunAiTrader(t, cached, clock, ai_positions, ai_decisions, decision)
            there == RunAiTrader(t, cached, clock, OthersChanged(ai_positions, t.id),
                                 ai_decisions, decision)
        IN  /\ here.cash_balance = there.cash_balance
            /\ SelectSeq(here.positions, LAMBDA r : r.trader_id = t.id)
                   = SelectSeq(there.positions, LAMBDA r : r.trader_id = t.id)
            /\ SelectSeq(here.decisions, LAMBDA r : r.trader_id = t.id)
                   = SelectSeq(there.decisions, LAMBDA r : r.trader_id = t.id)

\* C27: cycles of distinct portfolios and of distinct traders do not interfere: a
\* cycle for one owner reads and writes only that owner's cash, positions,
\* transactions and decisions, so an owner's rows come out the same whether or not
\* another owner's cycle has run, in whatever order the cycles' steps are taken.
C27_NoInterference ==
    /\ [][PaperIndependent /\ AgentFrame]_vars
    /\ []AgentReadsOwn

\* the second portfolio of a cycle opened a position after the first had opened one;
\* or a trader's cycle ended while the other trader held an open position
C27_Witness ==
    \/ /\ cycle.ran /\ Len(cycle.processed) = 2
       /\ \E i, j \in 1..Len(paper_positions) :
             /\ paper_positions[i].portfolio_id = PortfolioIds[1]
             /\ paper_positions[j].portfolio_id = PortfolioIds[2]
             /\ paper_positions[i].opened_at = paper_positions[j].opened_at
             /\ i < j
    \/ /\ ai.done
       /\ \E i \in 1..Len(ai_positions) :
             /\ ai_positions[i].is_open
             /\ ai_positions[i].trader_id # LastDecision.trader_id

-----------------------------------------------------------------------------
(* Unknown resources *)

\* the latest request named an asset the aggregate does not list, a portfolio or a
\* trader the store has no row of
NamesUnknown ==
    /\ http.route # ""
    /\ http.db
    /\ http.route = "GET /api/funding/:asset" =>
          \A k \in 1..Len(cached) : cached[k].asset # toUpperCase(http.param)
    /\ http.route = "GET /api/paper/portfolios/:id" =>
          http.param \notin DOMAIN paper_portfolios
    /\ http.route \in {"GET /api/ai/traders/:name", "POST /api/ai/run/:name"} =>
          \A k \in 1..Len(ai_traders) : ai_traders[k].name # http.param

\* C28: every HTTP request that names an unknown asset, agent or portfolio is
\* answered with status 404 (GET /api/funding/:asset, GET /api/paper/portfolios/:id,
\* GET /api/ai/traders/:name and POST /api/ai/run/:name alike) and performs no store
\* write.
C28_Unknown404 ==
    NamesUnknown => (http.status = 404 /\ ~http.wrote)

-----------------------------------------------------------------------------
(* Analytics *)

\* the values of the series that give a return, and the returns
ValidReturns == Returns(analytics.values, 2)

\* C29: computeSharpeAndDrawdown returns a null Sharpe if and only if there are
\* fewer than 2 valid returns (returns whose previous value is > 0) or the sample
\* standard deviation of the returns is zero, and every non-null max drawdown it
\* returns lies in [-1, 0], for every input series of equity values (including
\* series containing zero or negative values).
C29_SharpeAndDrawdown ==
    analytics.called =>
        /\ analytics.result.sharpe.null <=>
              \/ Len(ValidReturns) < 2
              \/ \A i, j \in 1..Len(ValidReturns) : ValidReturns[i] = ValidReturns[j]
        /\ ~analytics.result.max_drawdown.null =>
              /\ analytics.result.max_drawdown.value >= 0 - DrawdownScale
              /\ analytics.result.max_drawdown.value <= 0

-----------------------------------------------------------------------------
(* Strategy exits *)

\* the exit rule of the portfolio's strategy, for a position and the quote of its asset
ExitRule(portfolio, pos, q) ==
    LET config == portfolio.strategy_config
        strategy == portfolio.strategy_name
    IN  CASE strategy = "negative_fade" ->
               q.rate8h > Cfg(config, "exit_rate_threshold", 0 - 100)
          [] strategy = "regime_adaptive" ->
               IF pos.side = "long_perp"
               THEN q.rate8h > Cfg(config, "exit_rate_threshold", 1)
               ELSE q.rate8h < 0 - Cfg(config, "exit_rate_threshold", 1)
          [] OTHER ->
               q.maxSpread < Cfg(config, "exit_spread_threshold", 100)

\* the positions of the latest cycle that met a quote of their asset and no stop-loss
Unstopped ==
    { i \in 1..Len(pp.funded) :
        /\ HasSpread(pp.spreads, pp.funded[i].asset)
        /\ ~(pp.x[i].shouldExit /\ pp.x[i].exitReason = "stop_loss") }

\* C30: in the paper exit phase, when stop-loss does not trigger, a position is
\* exited exactly when its strategy's rule holds: negative_fade: primary.rate8h >
\* exit_rate_threshold (default -0.01); regime_adaptive: long: primary.rate8h >
\* exit_rate_threshold (default 0.0001), short: primary.rate8h <
\* -exit_rate_threshold; every other strategy: maxSpread < exit_spread_threshold
\* (default 0.01).
C30_StrategyExits ==
    pp.done =>
        \A i \in Unstopped :
            LET pos == pp.funded[i]
                rule == ExitRule(pp.portfolio, pos, SpreadOf(pp.spreads, pos.asset))
            IN  /\ ~paper_positions[pos.id].is_open <=> rule
                /\ rule <=> Count(CycleTxs, LAMBDA t : /\ t.type = "close"
                                                       /\ t.position_id = pos.id
                                                       /\ t.note = "strategy") = 1
                /\ ~rule => Count(CycleTxs, LAMBDA t : /\ t.type = "close"
                                                        /\ t.position_id = pos.id) = 0

\* a regime_adaptive short was exited by its rule at a rate a long would have been
\* kept at, under a configured threshold
C30_Witness ==
    /\ pp.done
    /\ pp.portfolio.strategy_name = "regime_adaptive"
    /\ "exit_rate_threshold" \in DOMAIN pp.portfolio.strategy_config
    /\ \E i \in Unstopped :
          /\ pp.funded[i].side = "short_perp"
          /\ SpreadOf(pp.spreads, pp.funded[i].asset).rate8h
                 < 0 - pp.portfolio.strategy_config.exit_rate_threshold
          /\ ~paper_positions[pp.funded[i].id].is_open

-----------------------------------------------------------------------------
(* regime_adaptive entries *)

\* the thresholds of the latest cycle's portfolio: positive_threshold, and
\* negative_threshold as the magnitude the stored negative_rate_threshold negates
PositiveThreshold == Cfg(pp.portfolio.strategy_config, "positive_rate_threshold", 3)
NegativeThreshold == 0 - Cfg(pp.portfolio.strategy_config, "negative_rate_threshold", 0 - 3)

\* the rows the latest cycle inserted
OpenedRows == [j \in 1..Len(pp.opened) |-> paper_positions[pp.opened[j].id]]

\* the assets still held when the entry phase of the latest cycle began
HeldAtEntry ==
    { pp.funded[i].asset : i \in { k \in 1..Len(pp.funded) : ~pp.x[k].shouldExit } }

\* the largest |rate8h| of a bucket: 0 for an empty one
BestOf(bucket) ==
    IF bucket = {} THEN 0
    ELSE CHOOSE r \in { Abs(s.rate8h) : s \in bucket } :
            \A s \in bucket : Abs(s.rate8h) <= r
ShortBucket ==
    { s \in Range(pp.spreads) : s.rate8h > PositiveThreshold /\ s.asset \notin HeldAtEntry }
LongBucket ==
    { s \in Range(pp.spreads) :
        s.rate8h < 0 - NegativeThreshold /\ s.asset \notin HeldAtEntry }

\* C31: for a regime_adaptive portfolio, every position opened as long_perp is on an
\* asset with primary.rate8h < -negative_threshold and every position opened as
\* short_perp is on an asset with primary.rate8h > positive_threshold (default
\* 0.0003), for every configured threshold value, and the bucket entered is the one
\* whose best |rate8h| is larger.
C31_RegimeEntries ==
    (pp.done /\ pp.portfolio.strategy_name = "regime_adaptive") =>
        \A j \in 1..Len(OpenedRows) :
            LET row == OpenedRows[j]
                rate == SpreadOf(pp.spreads, row.asset).rate8h
            IN  /\ row.side = "long_perp" =>
                      /\ rate < 0 - NegativeThreshold
                      /\ BestOf(LongBucket) >= BestOf(ShortBucket)
                /\ row.side = "short_perp" =>
                      /\ rate > PositiveThreshold
                      /\ BestOf(ShortBucket) >= BestOf(LongBucket)

-----------------------------------------------------------------------------
(* The entry phase after exits *)

\* maxPositions of the latest cycle's portfolio
MaxPositionsOf == Cfg(pp.portfolio.strategy_config, "max_positions", DEFAULT_MAX_POSITIONS)

\* the candidates the latest cycle's entry phase had to choose from
CycleCandidates ==
    Candidates(pp.portfolio.strategy_name, pp.portfolio.strategy_config, pp.spreads,
               HeldAtEntry)

\* the size an entry made right after the exit phase would have
FirstSize == PositionSize(pp.maxPositionSize, pp.cashAfterExits)

\* C32: the paper entry phase is skipped only if the number of positions still open
\* after the exit phase is at maxPositions or cash < maxPositionSize x 0.5: in a cycle
\* whose exits bring a portfolio that was at its cap below the cap, with a qualifying
\* candidate and sufficient cash (size >= 100), at least one position is opened in
\* that same cycle.
C32_EntryAfterExit ==
    ( /\ pp.done /\ pp.clean
      /\ Len(pp.funded) = MaxPositionsOf
      /\ Len(pp.positionsToRemove) >= 1
      /\ 2 * pp.cashAfterExits > pp.maxPositionSize
      /\ CycleCandidates # << >>
      /\ FirstSize >= Usd(MIN_POSITION_USD)
      /\ pp.cashAfterExits >= FirstSize + Frac(FirstSize, TRADING_FEE) )
    => Len(pp.opened) >= 1

-----------------------------------------------------------------------------
(* The position cap of a portfolio *)

\* the open positions of the latest cycle's portfolio
OpenOf ==
    SelectSeq(paper_positions, LAMBDA r : r.portfolio_id = pp.portfolio.id /\ r.is_open)

\* C33: after every paper-trading cycle, the number of open positions of a portfolio
\* is at most maxPositions (config.max_positions, default 5), provided it was at most
\* maxPositions before the cycle.
C33_PaperCap ==
    (pp.done /\ Len(pp.loaded) <= MaxPositionsOf) => Len(OpenOf) <= MaxPositionsOf

\* a cycle filled the portfolio to its cap and left a candidate unentered
C33_Witness ==
    /\ pp.done
    /\ Len(pp.opened) >= 1
    /\ Len(OpenOf) = MaxPositionsOf
    /\ Len(CycleCandidates) > Len(pp.opened)

-----------------------------------------------------------------------------
(* The AI cycle: stop-loss *)

\* the loaded position has an entry price and a mark, and has lost more than 15%
LostBeyondStop(pos) ==
    LET entry == pos.entry_price_approx
        mark == MarkOf(ai.spreads, pos.asset)
        gain == IF pos.direction = "long" THEN mark - entry ELSE entry - mark
    IN  /\ HasSpread(ai.spreads, pos.asset)
        /\ entry # NoPrice /\ entry > 0 /\ mark # NoPrice
        /\ gain * FracDen < (0 - 1500) * entry

\* the decision rows of the latest cycle
CycleDecisions == SubSeq(ai_decisions, ai.decisionsAtLoad + 1, Len(ai_decisions))

\* the loaded positions the stop-loss of the latest cycle closed
Stopped == SelectSeq(ai.loaded, LAMBDA r : r.id \in Range(ai.stopLossClosedIds))

\* C34: in the AI cycle's funding/stop-loss step, every open position with a known
\* entry price and current mark whose signed price return is strictly below -0.15 is
\* closed and a synthetic close decision row is persisted for it; a position closed by
\* stop-loss is not counted as open, not shown to the LLM, and cannot be closed again
\* by the LLM's decision in the same cycle (a close for that asset is downgraded to
\* hold).
C34_AiStopLoss ==
    CycleDone =>
        /\ \A i \in 1..Len(ai.loaded) :
              LET pos == ai.loaded[i]
              IN  /\ LostBeyondStop(pos) <=> pos.id \in Range(ai.stopLossClosedIds)
                  /\ LostBeyondStop(pos) =>
                        /\ ~ai_positions[pos.id].is_open
                        /\ ai_positions[pos.id].closed_at = ai.now
                        /\ Count(CycleDecisions,
                                 LAMBDA d : /\ d.action = "close" /\ d.asset = pos.asset
                                            /\ d.size_usd = pos.size_usd
                                            /\ d.reasoning = "STOP LOSS") = 1
        /\ \A j \in 1..Len(ai.stopLossClosedIds) :
              /\ ai.stopLossClosedIds[j] \notin Range(ai.shown)
              /\ ai.closedId # ai.stopLossClosedIds[j]
        /\ ai.totalValue =
              ai.cashAtLoad + CycleFunding + CycleStopLossCredit
                  + SumSeq([i \in 1..Len(HeldAtExecute) |->
                        HeldAtExecute[i].size_usd
                            + computeUnrealizedPnl(HeldAtExecute[i],
                                  MarkOf(ai.spreads, HeldAtExecute[i].asset))])
        /\ ( /\ llm.decision.action = "close"
             /\ \E i \in 1..Len(Stopped) : Stopped[i].asset = llm.decision.asset )
           => /\ LastDecision.action = "hold"
              /\ ai.closedId = NoId
              /\ Len(CycleDecisions) = Len(ai.stopLossClosedIds) + 1

\* the stop-loss closed the BTC position in a cycle in which the LLM asked to close BTC
C34_Witness ==
    /\ CycleDone
    /\ \E i \in 1..Len(Stopped) : Stopped[i].asset = llm.decision.asset
    /\ llm.decision.action = "close"
    /\ LastDecision.action = "hold"
    /\ ~ai_positions[Stopped[1].id].is_open

-----------------------------------------------------------------------------
(* The AI cycle: hold *)

\* the LLM returned hold, or a close for an asset the trader held no position in
\* when the decision was executed
HoldOrNothingToClose ==
    /\ CycleDone
    /\ \/ llm.decision.action = "hold"
       \/ /\ llm.decision.action = "close"
          /\ \A i \in 1..Len(HeldAtExecute) : HeldAtExecute[i].asset # llm.decision.asset

\* the ids of the rows of s
IdsOf(s) == { s[i].id : i \in 1..Len(s) }

\* C35: when the AI cycle's decision is hold, returned by the LLM or a close
\* downgraded because the agent has no open position for the asset, the execute step
\* inserts no position and closes none, the cash balance stays as it was after the
\* funding/stop-loss step, and the persisted decision row carries the action hold.
C35_AiHold ==
    HoldOrNothingToClose =>
        /\ ai.openedId = NoId /\ ai.closedId = NoId
        /\ IdsOf(OpenAi) = IdsOf(HeldAtExecute)
        /\ ai.cashBalance = ai.cashAtLoad + CycleFunding + CycleStopLossCredit
        /\ ai_traders[1].cash_balance = ai.cashBalance
        /\ LastDecision.action = "hold"
        /\ Len(CycleDecisions) = Len(ai.stopLossClosedIds) + 1

\* a close for ETH was logged as hold in a cycle that held a BTC position and collected
\* funding on it
C35_Witness ==
    /\ HoldOrNothingToClose
    /\ llm.decision.action = "close"
    /\ HeldAtExecute # << >>
    /\ CycleFunding # 0
    /\ LastDecision.action = "hold"
    /\ IdsOf(OpenAi) = IdsOf(HeldAtExecute)

-----------------------------------------------------------------------------
(* The transaction log and the cash balance *)

\* the transactions of the portfolio of the latest call
LedgerOf == SelectSeq(paper_transactions, LAMBDA t : t.portfolio_id = pp.portfolio.id)

\* the sum of their amounts
LedgerSum == SumSeq([i \in 1..Len(LedgerOf) |-> LedgerOf[i].amount])

\* C36: after a paper-trading cycle for a portfolio completes with its cash update
\* succeeding, the persisted cashBalance equals the portfolio's initial balance plus
\* the sum of the amounts of all that portfolio's transactions, also when an earlier
\* cycle of that portfolio failed part-way.
C36_LedgerMatchesCash ==
    (pp.done /\ ~pp.updateErr) =>
        paper_portfolios[pp.portfolio.id].cash_balance = InitialBalance + LedgerSum



-----------------------------------------------------------------------------
(* The total value the views report, before and after a close *)

\* computePaperUnrealizedPnl(pos, currentPrice)
computePaperUnrealizedPnl(pos, currentPrice) ==
    IF currentPrice = NoPrice \/ pos.entry_price = NoPrice THEN 0
    ELSE IF pos.side = "long_perp"
    THEN Scale(pos.size_usd, currentPrice - pos.entry_price, pos.entry_price)
    ELSE Scale(pos.size_usd, pos.entry_price - currentPrice, pos.entry_price)

\* p.cash_balance + positionValue of GET /api/paper/portfolios and of the snapshot
\* sampler, over the open positions given
PaperTotalValue(cash_balance, positions, spreads) ==
    cash_balance
        + SumSeq([i \in 1..Len(positions) |->
              positions[i].size_usd
                  + computePaperUnrealizedPnl(positions[i], MarkOf(spreads, positions[i].asset))
                  + positions[i].total_funding_collected])

\* t.cash_balance + totalPositionValue of GET /api/ai/traders and of the snapshot
\* sampler, over the open positions given
AiViewTotalValue(cash_balance, positions, spreads) ==
    cash_balance
        + SumSeq([i \in 1..Len(positions) |->
              positions[i].size_usd
                  + computeUnrealizedPnl(positions[i], MarkOf(spreads, positions[i].asset))
                  + positions[i].funding_collected])

\* the indices of the positions the exit phase of the latest paper call closed
ExitedAt == SelectSeq([i \in 1..Len(pp.funded) |-> i], LAMBDA i : pp.x[i].shouldExit)
KeptAt == SelectSeq([i \in 1..Len(pp.funded) |-> i], LAMBDA i : ~pp.x[i].shouldExit)

\* the exit phase of a paper cycle lowers the reported total value by the exit fees
PaperCloseCostsFee ==
    pp.done =>
        PaperTotalValue(pp.cashAfterExits, [j \in 1..Len(KeptAt) |-> pp.funded[KeptAt[j]]],
                        pp.spreads)
          = PaperTotalValue(pp.cashAfterFunding, pp.funded, pp.spreads)
              - SumSeq([j \in 1..Len(ExitedAt) |->
                    Frac(pp.funded[ExitedAt[j]].size_usd, TRADING_FEE)])

\* the rows, as the funding loop left them, of the positions the latest AI cycle held
\* when it executed its decision
HeldRows == [i \in 1..Len(HeldAtExecute) |-> ai_positions[HeldAtExecute[i].id]]

\* the close the LLM decided lowers the reported total value by the exit fee
AiCloseCostsFee ==
    (CycleDone /\ ai.closedId # NoId) =>
        AiViewTotalValue(ai.cashBalance,
                         SelectSeq(HeldRows, LAMBDA r : r.id # ai.closedId), ai.spreads)
          = AiViewTotalValue(ai.cashAtLoad + CycleFunding + CycleStopLossCredit,
                             HeldRows, ai.spreads)
              - Frac(ai_positions[ai.closedId].size_usd, TRADING_FEE)

\* C37: closing a position changes its owner's reported mark-to-market total value
\* (cash + the sum over open positions of sizeUsd + unrealized price P&L + funding
\* collected, as the HTTP views and the snapshot sampler compute it against the same
\* marks) by exactly minus the exit fee, for paper portfolios and AI agents alike.
C37_CloseCostsExitFee == PaperCloseCostsFee /\ AiCloseCostsFee

-----------------------------------------------------------------------------
(* Closed positions *)

\* a step leaves every closed paper position and every closed AI position as it was
ClosedStay ==
    /\ Len(paper_positions') >= Len(paper_positions)
    /\ \A k \in 1..Len(paper_positions) :
          ~paper_positions[k].is_open => paper_positions'[k] = paper_positions[k]
    /\ Len(ai_positions') >= Len(ai_positions)
    /\ \A k \in 1..Len(ai_positions) :
          ~ai_positions[k].is_open => ai_positions'[k] = ai_positions[k]

\* C38: once a paper or AI position is closed, no later cycle changes it: cycles run
\* one after the other never update a closed position, never collect funding on it and
\* never close it again.
C38_ClosedStay == [][ClosedStay]_vars

\* a paper cycle, or an AI cycle, ran over a store holding a position closed earlier
C38_Witness ==
    \/ /\ pp.done
       /\ \E k \in 1..Len(paper_positions) :
             /\ ~paper_positions[k].is_open
             /\ k <= pp.rowsAtLoad
             /\ \A i \in 1..Len(pp.loaded) : pp.loaded[i].id # k
             /\ paper_positions[k].closed_at < pp.now
    \/ /\ CycleDone
       /\ \E k \in 1..Len(ai_positions) :
             /\ ~ai_positions[k].is_open
             /\ k # ai.openedId
             /\ \A i \in 1..Len(ai.loaded) : ai.loaded[i].id # k
             /\ ai_positions[k].closed_at < ai.now

-----------------------------------------------------------------------------
(* Positions in assets the aggregate does not list *)

\* the positions the latest paper call loaded whose asset the aggregate does not list
Unlisted == SelectSeq(pp.loaded, LAMBDA r : ~HasSpread(pp.spreads, r.asset))

\* C39: a paper position whose asset is absent from the current aggregate is left
\* entirely unchanged by the cycle: it accrues no funding, is not evaluated for
\* stop-loss or strategy exit, stays open, and its last funding time is not advanced.
C39_UnlistedUntouched ==
    pp.done =>
        \A i \in 1..Len(Unlisted) :
            /\ paper_positions[Unlisted[i].id] = Unlisted[i]
            /\ Unlisted[i].is_open
            /\ \A j \in 1..Len(CycleTxs) : CycleTxs[j].position_id # Unlisted[i].id

\* a cycle ran without BTC in the aggregate over an open BTC position whose last
\* funding collection was more than an hour before
C39_Witness ==
    /\ pp.done
    /\ Unlisted # << >>
    /\ pp.now - Unlisted[1].last_funding_collected >= FUNDING_PERIOD_MS
    /\ paper_positions[Unlisted[1].id].is_open

-----------------------------------------------------------------------------
(* Entries and the cash balance *)

\* C40: entries never overdraw a paper portfolio: if cash is >= 0 before the entry
\* phase, cash is >= 0 after every position opened in that phase, for every
\* combination of maxPositionSize, cash and number of candidates.
C40_NoOverdraw ==
    (pp.done /\ pp.cashAfterExits >= 0) =>
        /\ \A i \in 1..Len(pp.opened) :
              pp.opened[i].cashBefore >= 0 /\ pp.opened[i].cashAfter >= 0
        /\ pp.cashBalance >= 0
        /\ paper_portfolios[pp.portfolio.id].cash_balance >= 0

\* two positions were opened in one entry phase, the second with all the cash that
\* was left but the fee reserve
C40_Witness ==
    /\ pp.done
    /\ pp.cashAfterExits > 0
    /\ Len(pp.opened) = 2
    /\ pp.opened[2].cashAfter >= 0
    /\ pp.opened[2].cashAfter < Usd(1)
    /\ pp.opened[2].cashBefore < pp.maxPositionSize

====
